---------------------------- MODULE Spec2Model ----------------------------
(***************************************************************************)
(* haystackdb: the ANN tree (structures/ann_tree), its filters, the block  *)
(* store (structures/block_storage), the write-ahead log and the commit,   *)
(* query and point-in-time-recovery services, as state machines.           *)
(*                                                                         *)
(* Five specifications share the variables of this module:                 *)
(*   Spec    the ANN tree under ANNTree::new, insert and true_calibrate;   *)
(*   SpecBS  the block store under store and load;                         *)
(*   SpecNS  a namespace under ingest, commit, recovery and the clock;     *)
(*   SpecSrv the tasks of the server (main.rs) on one namespace;           *)
(*   SpecHD  the Hamming kernel on byte vectors.                           *)
(***************************************************************************)
EXTENDS Integers, Sequences, FiniteSets, TLC

(***************************************************************************)
(* Bounds of the model.                                                    *)
(***************************************************************************)
\* number of bits of a quantized vector in the model
VecBits == 2
\* number of ANNTree::insert calls explored
MaxInserts == 6
\* number of true_calibrate calls explored
MaxCalibrates == 1
\* largest top_k a search is asked for
MaxTopK == 3
\* rounds of the split loop of insert followed before the call is given up
\* as not returning
MaxSplitRounds == 2
\* longest vector list whose clusterings are tabulated
MaxTableLen == 6

\* pages of the index file of a version that a commit writes and a query reads
MaxPages == 2
\* commits of the commit task, queries of the query handler, version directories
MaxCommits == 2
MaxQueries == 2
MaxSrvVersions == 3

(***************************************************************************)
(* Program constants.  crate::constants is not part of the sources; K and  *)
(* ALPHA are scaled down (the specification names 128 and 2..4).           *)
(***************************************************************************)
K == 3
ALPHA == 2
\* k_modes.rs: `while changes && iterations < 100`
MaxIterations == 100

(***************************************************************************)
(* Sequences.                                                              *)
(***************************************************************************)
\* TLC keeps [i \in S |-> e] as an unevaluated expression; SeqOf and FcnOf
\* give the same sequence, or function, with its elements evaluated once
SeqOf(f) == <<>> \o f
FcnOf(f) == f @@ <<>>

RECURSIVE SeqSum(_)
SeqSum(s) == IF s = <<>> THEN 0 ELSE Head(s) + SeqSum(Tail(s))

Range(s) == {s[i] : i \in 1..Len(s)}

RECURSIVE Concat(_)
Concat(ss) == IF ss = <<>> THEN <<>> ELSE Head(ss) \o Concat(Tail(ss))

Prefix(s, n) == IF Len(s) <= n THEN s ELSE SubSeq(s, 1, n)

Min2(a, b) == IF a <= b THEN a ELSE b
Max2(a, b) == IF a >= b THEN a ELSE b

\* Vec::sort_by_key on the distance field: a stable sort
RECURSIVE sort_by_key(_)
sort_by_key(s) ==
    IF s = <<>> THEN <<>>
    ELSE LET rest == sort_by_key(SubSeq(s, 1, Len(s) - 1))
             x    == s[Len(s)]
             pos  == Cardinality({i \in 1..Len(rest) : rest[i].distance <= x.distance})
         IN  SubSeq(rest, 1, pos) \o <<x>> \o SubSeq(rest, pos + 1, Len(rest))

(***************************************************************************)
(* Quantized vectors and the Hamming distance.                             *)
(***************************************************************************)
Vector == [1..VecBits -> {0, 1}]

hamming_distance(a, b) == Cardinality({i \in 1..VecBits : a[i] # b[i]})

\* utils/quantization.rs: a bit is set iff the component is >= 0.0
quantize(v) == SeqOf([i \in 1..VecBits |-> IF v[i] >= 0 THEN 1 ELSE 0])

(***************************************************************************)
(* k-modes (ann_tree/k_modes.rs).                                          *)
(***************************************************************************)
\* a bit of the mode is set iff it is set in more than half of the vectors
find_modes(vectors) ==
    SeqOf([i \in 1..VecBits |->
        IF 2 * Cardinality({j \in 1..Len(vectors) : vectors[j][i] = 1}) > Len(vectors)
        THEN 1 ELSE 0])

\* the first vector with the least sum of distances to the others
find_medoid(vectors) ==
    LET total(j) == SeqSum(SeqOf([m \in 1..Len(vectors) |->
                                    hamming_distance(vectors[j], vectors[m])]))
        best == CHOOSE j \in 1..Len(vectors) :
                    \A m \in 1..Len(vectors) :
                        /\ total(j) <= total(m)
                        /\ (m < j => total(m) > total(j))
    IN  vectors[best]

\* min_by_key over the centroids: the first nearest centroid
NearestCentroid(v, centroids) ==
    CHOOSE c \in 1..Len(centroids) :
        \A d \in 1..Len(centroids) :
            /\ hamming_distance(v, centroids[c]) <= hamming_distance(v, centroids[d])
            /\ (d < c => hamming_distance(v, centroids[d]) > hamming_distance(v, centroids[c]))

\* the indices assigned to cluster c, in index order
ClusterMembers(assign, c) ==
    SelectSeq([i \in 1..Len(assign) |-> i], LAMBDA i : assign[i] = c)

\* One pass of the loop body: every point goes to its nearest centroid; an
\* empty cluster receives one random index and that point as centroid, a
\* non-empty one its medoid.  The result is the set of states the pass can
\* leave, one per random draw.
KModesPass(data, st) ==
    LET k       == Len(st.centroids)
        assign  == SeqOf([i \in 1..Len(data) |-> NearestCentroid(data[i], st.centroids)])
        moved   == assign # st.cluster_indices
        members == SeqOf([c \in 1..k |-> ClusterMembers(assign, c)])
        empties == {c \in 1..k : members[c] = <<>>}
        draws   == [empties -> 1..Len(data)]
    IN  { [ centroids |-> SeqOf([c \in 1..k |->
                              IF c \in empties THEN data[r[c]]
                              ELSE find_medoid(SeqOf([m \in 1..Len(members[c]) |->
                                                        data[members[c][m]]]))]),
            cluster_indices |-> assign,
            clusters |-> SeqOf([c \in 1..k |-> IF c \in empties THEN <<r[c]>> ELSE members[c]]),
            changes  |-> moved \/ empties # {} ] : r \in draws }

\* The loop `while changes && iterations < 100` from a set of loop states.
\* When the set of states that continue is the set the pass started from,
\* every later pass repeats this one and the loop leaves at the cap with the
\* clusters of this pass.
RECURSIVE KModesLoop(_, _, _)
KModesLoop(data, states, iterations) ==
    IF states = {} THEN {}
    ELSE LET passes == UNION {KModesPass(data, st) : st \in states}
             last   == iterations + 1 >= MaxIterations
             done   == {p.clusters : p \in {x \in passes : ~x.changes \/ last}}
             cont   == {[centroids |-> p.centroids, cluster_indices |-> p.cluster_indices] :
                           p \in {x \in passes : x.changes /\ ~last}}
         IN  IF cont = states
             THEN {p.clusters : p \in passes}
             ELSE done \cup KModesLoop(data, cont, iterations + 1)

\* The clusterings balanced_k_modes_k_clusters(data, k) can return: the
\* initial centroids are k distinct random points in random order.  All
\* points start in cluster 0 of the code, cluster 1 here.
balanced_k_modes_k_clusters(data, k) ==
    LET picks == {p \in [1..k -> 1..Len(data)] : \A a, b \in 1..k : a # b => p[a] # p[b]}
        init  == {[centroids |-> SeqOf([c \in 1..k |-> data[p[c]]]),
                   cluster_indices |-> SeqOf([i \in 1..Len(data) |-> 1])] : p \in picks}
    IN  KModesLoop(data, init, 0)

(***************************************************************************)
(* Key-value metadata (structures/filters.rs).  A KVValue is a String, an  *)
(* Integer or a Float; numbers of the model are integers.                  *)
(***************************************************************************)
StringValue(v)  == [t |-> "String",  s |-> v,  n |-> 0]
IntegerValue(v) == [t |-> "Integer", s |-> "", n |-> v]
FloatValue(v)   == [t |-> "Float",   s |-> "", n |-> v]

KVPair(k, v) == [key |-> k, value |-> v]

\* Option<(min, max)>: <<>> is None, <<min, max>> is Some((min, max))
None == <<>>
Some(lo, hi) == <<lo, hi>>

\* ann_tree/metadata.rs: NodeMetadata::new
NodeMetadata == [values |-> {}, int_range |-> None, float_range |-> None]

\* NodeMetadataIndex::new: no key
NodeMetadataIndex == <<>>

\* HashMap::insert on a NodeMetadataIndex
MapInsert(index, k, item) ==
    FcnOf([x \in DOMAIN index \cup {k} |-> IF x = k THEN item ELSE index[x]])

Widen(range, v) ==
    IF range = None THEN Some(v, v) ELSE Some(Min2(range[1], v), Max2(range[2], v))

\* The fold of one pair into a summary as ANNTree::insert (non-full branch)
\* and Filters::should_prune_metadata do it: an absent range starts at (v, v).
FoldPair(index, kv) ==
    LET old == IF kv.key \in DOMAIN index THEN index[kv.key] ELSE NodeMetadata
    IN  MapInsert(index, kv.key,
            CASE kv.value.t = "String"  -> [old EXCEPT !.values = @ \cup {kv.value.s}]
              [] kv.value.t = "Integer" -> [old EXCEPT !.int_range = Widen(@, kv.value.n)]
              [] kv.value.t = "Float"   -> [old EXCEPT !.float_range = Widen(@, kv.value.n)])

RECURSIVE FoldPairs(_, _)
FoldPairs(index, kvs) ==
    IF kvs = <<>> THEN index ELSE FoldPairs(FoldPair(index, Head(kvs)), Tail(kvs))

\* NodeMetadataIndex::insert_kv_pair.  For a number under a key that is
\* already present the code unwraps the range of that kind; the inputs of
\* the model keep every key to one kind of value, so the range is there.
insert_kv_pair(index, kv) ==
    IF kv.key \notin DOMAIN index
    THEN MapInsert(index, kv.key,
            CASE kv.value.t = "String"  -> [NodeMetadata EXCEPT !.values = {kv.value.s}]
              [] kv.value.t = "Integer" -> [NodeMetadata EXCEPT !.int_range = Some(kv.value.n, kv.value.n)]
              [] kv.value.t = "Float"   -> [NodeMetadata EXCEPT !.float_range = Some(kv.value.n, kv.value.n)])
    ELSE LET old == index[kv.key]
         IN  MapInsert(index, kv.key,
                CASE kv.value.t = "String"  -> [old EXCEPT !.values = @ \cup {kv.value.s}]
                  [] kv.value.t = "Integer" ->
                        [old EXCEPT !.int_range = Some(Min2(@[1], kv.value.n), Max2(@[2], kv.value.n))]
                  [] kv.value.t = "Float"   ->
                        [old EXCEPT !.float_range = Some(Min2(@[1], kv.value.n), Max2(@[2], kv.value.n))])

\* the summary Node::split builds from the KV lists of a cluster
RECURSIVE SummaryOfRecords(_, _)
SummaryOfRecords(index, metadata) ==
    IF metadata = <<>> THEN index
    ELSE LET RECURSIVE pairs(_, _)
             pairs(ix, kvs) == IF kvs = <<>> THEN ix
                               ELSE pairs(insert_kv_pair(ix, Head(kvs)), Tail(kvs))
         IN  SummaryOfRecords(pairs(index, Head(metadata)), Tail(metadata))

CombineRange(a, b) ==
    CASE a # None /\ b # None -> Some(Min2(a[1], b[1]), Max2(a[2], b[2]))
      [] a # None /\ b = None -> a
      [] a = None /\ b # None -> b
      [] OTHER -> None

\* filters.rs: combine_filters, the union of a list of summaries
RECURSIVE combine_filters(_)
combine_filters(filters) ==
    IF filters = <<>> THEN NodeMetadataIndex
    ELSE LET result == combine_filters(SubSeq(filters, 1, Len(filters) - 1))
             filter == filters[Len(filters)]
         IN  FcnOf([k \in DOMAIN result \cup DOMAIN filter |->
                 IF k \notin DOMAIN filter THEN result[k]
                 ELSE IF k \notin DOMAIN result THEN filter[k]
                 ELSE [values      |-> result[k].values \cup filter[k].values,
                       int_range   |-> CombineRange(result[k].int_range, filter[k].int_range),
                       float_range |-> CombineRange(result[k].float_range, filter[k].float_range)]])

\* node.rs: NodeMetadataIndex serialize then deserialize.  An absent range
\* is written as (0, 0) and every range is read back as Some.
NodeMetadataIndexRoundTrip(index) ==
    FcnOf([k \in DOMAIN index |->
        [values      |-> index[k].values,
         int_range   |-> IF index[k].int_range = None THEN Some(0, 0) ELSE index[k].int_range,
         float_range |-> IF index[k].float_range = None THEN Some(0, 0) ELSE index[k].float_range]])

(***************************************************************************)
(* Filters.  A numeric bound x is carried as num2 = 2 * x, so that bounds  *)
(* with a fractional half exist and `x as i64` truncates.                  *)
(***************************************************************************)
FAnd(fs)       == [op |-> "And", key |-> "", vals |-> {}, num2 |-> 0, fs |-> fs]
FOr(fs)        == [op |-> "Or",  key |-> "", vals |-> {}, num2 |-> 0, fs |-> fs]
FIn(k, vs)     == [op |-> "In",  key |-> k,  vals |-> vs, num2 |-> 0, fs |-> <<>>]
FEq(k, v)      == [op |-> "Eq",  key |-> k,  vals |-> {v}, num2 |-> 0, fs |-> <<>>]
FGt(k, x2)     == [op |-> "Gt",  key |-> k,  vals |-> {}, num2 |-> x2, fs |-> <<>>]
FGte(k, x2)    == [op |-> "Gte", key |-> k,  vals |-> {}, num2 |-> x2, fs |-> <<>>]
FLt(k, x2)     == [op |-> "Lt",  key |-> k,  vals |-> {}, num2 |-> x2, fs |-> <<>>]
FLte(k, x2)    == [op |-> "Lte", key |-> k,  vals |-> {}, num2 |-> x2, fs |-> <<>>]

\* `value as i64` of a non-negative bound
AsI64(x2) == x2 \div 2

\* the comparison of a range end with the bound of a numeric filter
PruneCompare(op, end, x2, isFloat) ==
    LET l == IF isFloat THEN 2 * end ELSE end
        r == IF isFloat THEN x2 ELSE AsI64(x2)
    IN  CASE op = "Gt"  -> l > r
          [] op = "Gte" -> l >= r
          [] op = "Lt"  -> l < r
          [] op = "Lte" -> l <= r

\* Filters::should_prune
RECURSIVE should_prune(_, _)
should_prune(filter, node_metadata) ==
    CASE filter.op = "And" -> \A i \in 1..Len(filter.fs) : should_prune(filter.fs[i], node_metadata)
      [] filter.op = "Or"  -> \E i \in 1..Len(filter.fs) : should_prune(filter.fs[i], node_metadata)
      [] filter.op = "In"  ->
            IF filter.key \in DOMAIN node_metadata
            THEN ~(\E v \in filter.vals : v \in node_metadata[filter.key].values)
            ELSE TRUE
      [] filter.op = "Eq"  ->
            IF filter.key \in DOMAIN node_metadata
            THEN ~(\A v \in filter.vals : v \in node_metadata[filter.key].values)
            ELSE TRUE
      [] OTHER ->
            IF filter.key \in DOMAIN node_metadata
            THEN LET node_values == node_metadata[filter.key]
                     pick(range) == IF filter.op \in {"Gt", "Gte"} THEN range[1] ELSE range[2]
                 IN  IF node_values.float_range # None
                     THEN PruneCompare(filter.op, pick(node_values.float_range), filter.num2, TRUE)
                     ELSE IF node_values.int_range # None
                     THEN PruneCompare(filter.op, pick(node_values.int_range), filter.num2, FALSE)
                     ELSE TRUE
            ELSE TRUE

\* Filters::should_prune_metadata: the record's pairs folded into a summary
should_prune_metadata(filter, metadata) ==
    should_prune(filter, FoldPairs(NodeMetadataIndex, metadata))

\* The match semantics of a filter on the KV list of a record: And needs
\* all, Or any; Eq and In compare a string value of the key; the numeric
\* operators compare a numeric value of the key with the bound; a record
\* without the key does not match.
RECURSIVE Matches(_, _)
Matches(filter, metadata) ==
    LET strs == {metadata[i].value.s : i \in {j \in 1..Len(metadata) :
                    metadata[j].key = filter.key /\ metadata[j].value.t = "String"}}
        nums == {metadata[i].value.n : i \in {j \in 1..Len(metadata) :
                    metadata[j].key = filter.key /\ metadata[j].value.t # "String"}}
    IN  CASE filter.op = "And" -> \A i \in 1..Len(filter.fs) : Matches(filter.fs[i], metadata)
          [] filter.op = "Or"  -> \E i \in 1..Len(filter.fs) : Matches(filter.fs[i], metadata)
          [] filter.op = "In"  -> strs \cap filter.vals # {}
          [] filter.op = "Eq"  -> strs \cap filter.vals # {}
          [] filter.op = "Gt"  -> \E n \in nums : 2 * n > filter.num2
          [] filter.op = "Gte" -> \E n \in nums : 2 * n >= filter.num2
          [] filter.op = "Lt"  -> \E n \in nums : 2 * n < filter.num2
          [] filter.op = "Lte" -> \E n \in nums : 2 * n <= filter.num2

(***************************************************************************)
(* Inputs of the model.                                                    *)
(***************************************************************************)
\* key "c" holds strings, "n" integers, "f" floats
MetaA == <<KVPair("c", StringValue("a")), KVPair("n", IntegerValue(1))>>
MetaB == <<KVPair("c", StringValue("b")), KVPair("f", FloatValue(2))>>

\* the (vector, KV list) pairs inserted
Inputs ==
    { [vector |-> <<0, 0>>, metadata |-> MetaA],
      [vector |-> <<1, 1>>, metadata |-> MetaB] }

\* The vectors a node can hold: the inserted ones, a set closed under
\* find_modes.  The clusterings of every vector list of up to MaxTableLen
\* of them are computed once; longer lists are clustered on demand.
NodeVectors == {in.vector : in \in Inputs}

KModesTable ==
    FcnOf([data \in UNION {[1..n -> NodeVectors] : n \in 2..MaxTableLen} |->
              balanced_k_modes_k_clusters(data, 2)])

Clusterings(data) ==
    IF Len(data) <= MaxTableLen /\ Range(data) \subseteq NodeVectors
    THEN KModesTable[data]
    ELSE balanced_k_modes_k_clusters(data, 2)

(***************************************************************************)
(* Nodes of the ANN tree (ann_tree/node.rs) and the node store.  The store *)
(* is a sequence of nodes: the offset of a node is its position, offset 0  *)
(* is no node, and `root` is the root offset of the header.                *)
(***************************************************************************)
new_leaf ==
    [node_type |-> "Leaf", is_root |-> FALSE, parent_offset |-> 0,
     vectors |-> <<>>, ids |-> <<>>, children |-> <<>>, metadata |-> <<>>,
     node_metadata |-> NodeMetadataIndex]

new_internal == [new_leaf EXCEPT !.node_type = "Internal"]

is_full(node) == Len(node.vectors) >= K

\* StorageManager::store_node of a node that has no offset yet: the node
\* goes to a fresh offset, which is returned as NewOffset
NewOffset(t) == Len(t.nodes) + 1
store_new(t, node) == [t EXCEPT !.nodes = Append(@, node)]

\* StorageManager::store_node of a node that has its offset
store_node(t, offset, node) == [t EXCEPT !.nodes[offset] = node]

\* StorageManager::load_node: the node as deserialized; its summary comes
\* back through NodeMetadataIndex::deserialize
load_node(t, offset) ==
    [t.nodes[offset] EXCEPT !.node_metadata = NodeMetadataIndexRoundTrip(@)]

set_root_offset(t, offset) == [t EXCEPT !.root = offset]

\* ANNTree::compute_node_metadata: the union of the children's summaries
compute_node_metadata(t, node) ==
    combine_filters(SeqOf([i \in 1..Len(node.children) |->
                              load_node(t, node.children[i]).node_metadata]))

Pick(s, indices) == SeqOf([m \in 1..Len(indices) |-> s[indices[m]]])

\* Node::split with k = 2: the pairs (node after the split, sibling) the
\* clustering can produce.  The node keeps cluster 0, the sibling takes
\* cluster 1; both summaries are rebuilt from the KV lists they hold.
split(node) ==
    { LET part(c) ==
            [node EXCEPT
                !.vectors  = Pick(node.vectors, clusters[c]),
                !.ids      = IF node.node_type = "Leaf" THEN Pick(node.ids, clusters[c]) ELSE <<>>,
                !.metadata = IF node.node_type = "Leaf" THEN Pick(node.metadata, clusters[c]) ELSE <<>>,
                !.children = IF node.node_type = "Internal" THEN Pick(node.children, clusters[c]) ELSE <<>>]
          withSummary(n) ==
            [n EXCEPT !.node_metadata = SummaryOfRecords(NodeMetadataIndex, n.metadata)]
      IN  [node    |-> withSummary(part(1)),
           sibling |-> [withSummary(part(2)) EXCEPT !.is_root = FALSE]]
      : clusters \in Clusterings(node.vectors) }

\* ANNTree::find_entrypoint: from the root, the child with the nearest
\* centroid (the first of them on a tie) until a leaf is reached
RECURSIVE Descend(_, _, _)
Descend(t, offset, vector) ==
    LET node == load_node(t, offset)
    IN  IF node.node_type = "Leaf" THEN offset
        ELSE LET distances == sort_by_key(SeqOf([i \in 1..Len(node.vectors) |->
                                  [idx |-> i, distance |-> hamming_distance(vector, node.vectors[i])]]))
             IN  Descend(t, node.children[distances[1].idx], vector)

find_entrypoint(t, vector) == Descend(t, t.root, vector)

\* collect_leaf_nodes with a loop that stops one child short
RECURSIVE collect_leaf_nodes_short(_, _)
collect_leaf_nodes_short(t, offset) ==
    LET node == load_node(t, offset)
    IN  IF node.node_type = "Leaf" THEN <<offset>>
        ELSE Concat(SeqOf([i \in 1..(Len(node.children) - 1) |->
                              collect_leaf_nodes_short(t, node.children[i])]))

\* ANNTree::collect_leaf_nodes: the offsets of the leaves, depth first in
\* child order
RECURSIVE collect_leaf_nodes(_, _)
collect_leaf_nodes(t, offset) ==
    LET node == load_node(t, offset)
    IN  IF node.node_type = "Leaf" THEN <<offset>>
        ELSE Concat(SeqOf([i \in 1..Len(node.children) |->
                              collect_leaf_nodes(t, node.children[i])]))

\* ANNTree::new on a fresh file: a leaf is stored as the root
ANNTreeNew ==
    LET empty == [nodes |-> <<>>, root |-> 0]
    IN  set_root_offset(store_new(empty, [new_leaf EXCEPT !.is_root = TRUE]), NewOffset(empty))

(***************************************************************************)
(* ANNTree::insert (ann_tree.rs).  An operation on the store is a set of   *)
(* outcomes [t, returned, ...], one per clustering the splits can draw.    *)
(***************************************************************************)
\* The first statements after a split, common to every branch: the sibling
\* takes the node's parent offset, its summary becomes the union of its
\* children's summaries, and it is stored at a fresh offset.
StoreSibling(t, node, sibling) ==
    store_new(t, [sibling EXCEPT !.parent_offset = node.parent_offset,
                                 !.node_metadata = compute_node_metadata(t, sibling)])

\* `if node.is_root` / `if current_node.is_root`: a new internal root over
\* the node and its sibling.  t1 is the store after StoreSibling and
\* sibling_offset the offset the sibling got.  The new root is stored
\* without a summary.
SplitUnderNewRoot(t1, offset, node, sibling, sibling_offset) ==
    LET rootOff  == NewOffset(t1)
        new_root == [new_internal EXCEPT
                        !.is_root  = TRUE,
                        !.children = <<offset, sibling_offset>>,
                        !.vectors  = <<find_modes(node.vectors),
                                       find_modes(load_node(t1, sibling_offset).vectors)>>]
        t2    == set_root_offset(store_new(t1, new_root), rootOff)
        node2 == [node EXCEPT !.is_root = FALSE, !.parent_offset = rootOff]
        t3    == store_node(t2, offset, node2)
        sib2  == [sibling EXCEPT !.parent_offset = rootOff,
                                 !.node_metadata = compute_node_metadata(t3, sibling)]
    IN  [t |-> store_node(t3, sibling_offset, sib2), node |-> node2]

\* a branch that pushes the sibling's centroid but not the node's
SplitUnderParentOneVector(t1, offset, node, sibling, sibling_offset) ==
    LET parent_offset == node.parent_offset
        loaded == load_node(t1, parent_offset)
        parent == [loaded EXCEPT
                      !.children = @ \o <<offset, sibling_offset>>,
                      !.vectors  = @ \o <<find_modes(sibling.vectors)>>]
        t2   == store_node(t1, parent_offset, parent)
        t3   == store_node(t2, offset, node)
        sib2 == [sibling EXCEPT !.parent_offset = parent_offset,
                                !.node_metadata = compute_node_metadata(t3, sibling)]
        t4   == store_node(t3, sibling_offset, sib2)
    IN  [t |-> t4, parent_offset |-> parent_offset,
         parent |-> [parent EXCEPT !.node_metadata = compute_node_metadata(t4, parent)]]

\* the else branch: the node's offset is pushed onto its parent once more,
\* then the sibling's; the parent, the node and the sibling are stored
SplitUnderParent(t1, offset, node, sibling, sibling_offset) ==
    LET parent_offset == node.parent_offset
        loaded == load_node(t1, parent_offset)
        parent == [loaded EXCEPT
                      !.children = @ \o <<offset, sibling_offset>>,
                      !.vectors  = @ \o <<find_modes(node.vectors), find_modes(sibling.vectors)>>]
        t2   == store_node(t1, parent_offset, parent)
        t3   == store_node(t2, offset, node)
        sib2 == [sibling EXCEPT !.parent_offset = parent_offset,
                                !.node_metadata = compute_node_metadata(t3, sibling)]
        t4   == store_node(t3, sibling_offset, sib2)
    IN  [t |-> t4, parent_offset |-> parent_offset,
         parent |-> [parent EXCEPT !.node_metadata = compute_node_metadata(t4, parent)]]

\* `while current_node.is_full()`: current_node is the in-memory node and
\* offset its offset.  After a split under a new root the loop goes on with
\* the same node, after a split under a parent with that parent.  A node
\* whose vectors are all equal keeps all of them in every split and stays
\* full, so the loop never ends; that, and a loop still running after
\* MaxSplitRounds rounds, is reported as a call that does not return.
NotReturned == [t |-> [nodes |-> <<>>, root |-> 0], returned |-> FALSE]

RECURSIVE SplitLoop(_, _, _, _)
SplitLoop(t, offset, current_node, rounds) ==
    IF ~is_full(current_node) THEN {[t |-> t, returned |-> TRUE]}
    ELSE IF Cardinality(Range(current_node.vectors)) = 1 \/ rounds >= MaxSplitRounds
    THEN {NotReturned}
    ELSE UNION {
        LET t1 == StoreSibling(t, s.node, s.sibling)
            sibling_offset == NewOffset(t)
        IN  IF current_node.is_root
            THEN LET r == SplitUnderNewRoot(t1, offset, s.node, s.sibling, sibling_offset)
                 IN  SplitLoop(r.t, offset, r.node, rounds + 1)
            ELSE LET r == SplitUnderParent(t1, offset, s.node, s.sibling, sibling_offset)
                 IN  SplitLoop(r.t, r.parent_offset, r.parent, rounds + 1)
        : s \in split(current_node) }

\* the branch of insert for an entry leaf that is not full: the entry is
\* appended and its pairs are folded into the leaf's summary
InsertIntoLeaf(t, entrypoint, node, vector, id, metadata) ==
    store_node(t, entrypoint,
        [node EXCEPT !.vectors  = Append(@, vector),
                     !.ids      = Append(@, id),
                     !.metadata = Append(@, metadata),
                     !.node_metadata = FoldPairs(@, metadata)])

\* ANNTree::insert.  When the entry leaf is full the leaf is split and the
\* parents are split while they are full; the branch ends there, and the
\* new (vector, id, metadata) is not written.
insert(t, vector, id, metadata) ==
    LET entrypoint == find_entrypoint(t, vector)
        node       == load_node(t, entrypoint)
    IN  IF is_full(node)
        THEN UNION {
            LET t1 == StoreSibling(t, s.node, s.sibling)
                sibling_offset == NewOffset(t)
                tag(o) == [t |-> o.t, returned |-> o.returned, entrypoint |-> entrypoint,
                           was_full |-> TRUE, sibling_offset |-> sibling_offset]
            IN  IF node.is_root
                THEN {tag([t |-> SplitUnderNewRoot(t1, entrypoint, s.node, s.sibling,
                                                   sibling_offset).t,
                           returned |-> TRUE])}
                ELSE LET r == SplitUnderParent(t1, entrypoint, s.node, s.sibling, sibling_offset)
                     IN  {tag(o) : o \in SplitLoop(r.t, r.parent_offset, r.parent, 0)}
            : s \in split(node) }
        ELSE {[t |-> InsertIntoLeaf(t, entrypoint, node, vector, id, metadata),
               returned |-> TRUE, entrypoint |-> entrypoint, was_full |-> FALSE,
               sibling_offset |-> 0]}

(***************************************************************************)
(* ANNTree::true_calibrate.                                                *)
(***************************************************************************)
\* Steps 1 to 4: a new internal root is stored and made the root; every
\* collected leaf is stored again with the new root as parent (its is_root
\* flag is left as it was); the root gets the leaves as children, their
\* modes as vectors and the union of their summaries.
CalibrateFlatten(t) ==
    LET leaves  == collect_leaf_nodes(t, t.root)
        rootOff == NewOffset(t)
        t1      == set_root_offset(store_new(t, [new_internal EXCEPT !.is_root = TRUE]), rootOff)
        RECURSIVE storeLeaves(_, _)
        storeLeaves(tt, i) ==
            IF i > Len(leaves) THEN tt
            ELSE storeLeaves(
                    store_node(tt, leaves[i],
                        [load_node(t, leaves[i]) EXCEPT !.parent_offset = rootOff]),
                    i + 1)
        t2      == storeLeaves(t1, 1)
        filled  == [new_internal EXCEPT
                       !.is_root  = TRUE,
                       !.children = leaves,
                       !.vectors  = SeqOf([i \in 1..Len(leaves) |->
                                        find_modes(load_node(t, leaves[i]).vectors)])]
        new_root == [filled EXCEPT !.node_metadata = compute_node_metadata(t2, filled)]
    IN  [t |-> store_node(t2, rootOff, new_root), offset |-> rootOff, new_root |-> new_root]

\* Step 5 on the one node the work list ever holds, the new root: when it
\* is full it is split once under another new root, whose summary is
\* computed before it is stored; the split node is stored with the summary
\* Node::split gave it.  (The branch for a node that is not the root is not
\* reachable: the node popped is the root.)
CalibrateSplitRoot(t, offset, node) ==
    { LET t1 == StoreSibling(t, s.node, s.sibling)
          sibling_offset == NewOffset(t)
          rootOff == NewOffset(t1)
          bare == [new_internal EXCEPT
                      !.is_root  = TRUE,
                      !.children = <<offset, sibling_offset>>,
                      !.vectors  = <<find_modes(s.node.vectors),
                                     find_modes(load_node(t1, sibling_offset).vectors)>>]
          new_root == [bare EXCEPT !.node_metadata = compute_node_metadata(t1, bare)]
          t2 == set_root_offset(store_new(t1, new_root), rootOff)
          t3 == store_node(t2, offset, [s.node EXCEPT !.is_root = FALSE, !.parent_offset = rootOff])
          sib2 == [s.sibling EXCEPT !.parent_offset = rootOff,
                                    !.node_metadata = compute_node_metadata(t3, s.sibling)]
      IN  store_node(t3, sibling_offset, sib2)
      : s \in split(node) }

true_calibrate(t) ==
    LET flat == CalibrateFlatten(t)
    IN  IF is_full(flat.new_root)
        THEN CalibrateSplitRoot(flat.t, flat.offset, flat.new_root)
        ELSE {flat.t}

(***************************************************************************)
(* ANNTree::search.                                                        *)
(***************************************************************************)
\* The loop of collect_top_k_with_filters and collect_top_k_with_nodes over
\* the items sorted by distance; pruned[idx] tells whether item idx is
\* pruned by the filter.
RECURSIVE CollectTopK(_, _, _, _, _)
CollectTopK(distances, pruned, k, i, top_k_values) ==
    IF i > Len(distances) THEN top_k_values
    ELSE LET d == distances[i]
         IN  IF Len(top_k_values) >= k /\ d.distance >= top_k_values[k].distance
             THEN top_k_values
             ELSE IF pruned[d.idx]
             THEN CollectTopK(distances, pruned, k, i + 1, top_k_values)
             ELSE IF Len(top_k_values) < k
             THEN CollectTopK(distances, pruned, k, i + 1, Append(top_k_values, d))
             ELSE IF d.distance < top_k_values[k].distance
             THEN CollectTopK(distances, pruned, k, i + 1,
                      sort_by_key(Append(SubSeq(top_k_values, 1, Len(top_k_values) - 1), d)))
             ELSE CollectTopK(distances, pruned, k, i + 1, top_k_values)

Distances(query, items) ==
    sort_by_key(SeqOf([i \in 1..Len(items) |->
                    [idx |-> i, distance |-> hamming_distance(items[i], query)]]))

collect_top_k_with_filters(query, vector_items, metadata_items, filters, k) ==
    CollectTopK(Distances(query, vector_items),
                SeqOf([i \in 1..Len(metadata_items) |->
                          should_prune_metadata(filters, metadata_items[i])]),
                k, 1, <<>>)

collect_top_k_with_nodes(t, query, items, children, filters, k) ==
    CollectTopK(Distances(query, items),
                SeqOf([i \in 1..Len(children) |->
                          should_prune(filters, load_node(t, children[i]).node_metadata)]),
                k, 1, <<>>)

\* ANNTree::traverse: a leaf gives its k nearest unpruned entries; an
\* internal node the entries of its alpha nearest unpruned children, sorted
\* by distance and cut to alpha
RECURSIVE traverse(_, _, _, _, _)
traverse(t, vector, node, k, filters) ==
    IF node.node_type = "Leaf"
    THEN LET hits == collect_top_k_with_filters(vector, node.vectors, node.metadata, filters, k)
         IN  SeqOf([i \in 1..Len(hits) |->
                 [id |-> node.ids[hits[i].idx], distance |-> hits[i].distance,
                  metadata |-> node.metadata[hits[i].idx]]])
    ELSE LET alpha == IF ALPHA <= 1 THEN 1 ELSE ALPHA
             best_children ==
                 collect_top_k_with_nodes(t, vector, node.vectors, node.children, filters, alpha)
             all_results ==
                 Concat(SeqOf([i \in 1..Len(best_children) |->
                           traverse(t, vector,
                                    load_node(t, node.children[best_children[i].idx]),
                                    k, filters)]))
         IN  Prefix(sort_by_key(all_results), alpha)

\* a search that returns every candidate of traverse, sorted
search_untruncated(t, vector, top_k, filters) ==
    LET candidates == sort_by_key(traverse(t, vector, load_node(t, t.root), top_k, filters))
    IN  SeqOf([i \in 1..Len(candidates) |->
            [id |-> candidates[i].id, metadata |-> candidates[i].metadata]])

\* ANNTree::search for top_k >= 1: the pairs (id, KV list) returned
search(t, vector, top_k, filters) ==
    LET candidates == Prefix(sort_by_key(traverse(t, vector, load_node(t, t.root), top_k, filters)),
                             top_k)
    IN  SeqOf([i \in 1..Len(candidates) |->
            [id |-> candidates[i].id, metadata |-> candidates[i].metadata]])

(***************************************************************************)
(* The block store (structures/block_storage.rs).  The file is a header    *)
(* word, `header`, and zero-filled blocks; a block that was never written  *)
(* reads as ZeroBlock.  BLOCK_DATA_SIZE is scaled down from 4055 bytes.    *)
(***************************************************************************)
\* payload bytes of a block in the model
BLOCK_DATA_SIZE == 2
\* longest byte string stored
MaxLen == 3
\* number of BlockStorage::store calls explored
MaxStores == 3

\* the byte values of the payloads; the file is created filled with 0
Bytes == {1, 2}
Payloads == UNION {[1..n -> Bytes] : n \in 0..MaxLen}

Zeros == SeqOf([i \in 1..BLOCK_DATA_SIZE |-> 0])

ZeroBlock ==
    [is_primary |-> FALSE, index_in_chain |-> 0, primary_index |-> 0,
     next_block_offset |-> 0, previous_block_offset |-> 0,
     serialized_node_length |-> 0, data |-> Zeros]

\* BlockStorage::new on a path that does not exist: set_len gives zeros
BlockStorageNew == [header |-> 0, blocks |-> <<>>]

Block(s, index) == IF index \in DOMAIN s.blocks THEN s.blocks[index] ELSE ZeroBlock

SetBlock(s, index, b) ==
    [s EXCEPT !.blocks = FcnOf([x \in DOMAIN s.blocks \cup {index} |->
                                   IF x = index THEN b ELSE s.blocks[x]])]

\* used_blocks: the header word plus one
used_blocks(s) == s.header + 1

\* an allocation that leaves the header as it is: the block returned is
\* handed out again by the next allocation
AllocateWithoutIncrement(s) ==
    [s |-> s, index |-> used_blocks(s)]

\* increment_and_allocate_block: the header becomes used_blocks() + 1 and
\* the block returned is used_blocks()
increment_and_allocate_block(s) ==
    [s |-> [s EXCEPT !.header = used_blocks(s) + 1], index |-> used_blocks(s)]

get_block_header_data(s, index) == Block(s, index)

set_block_header_data(s, index, h) ==
    SetBlock(s, index, [h EXCEPT !.data = Block(s, index).data])

get_block_bytes(s, index) == Block(s, index).data

\* store_block: the bytes of data overwrite the start of the block's data
store_block(s, index, data) ==
    SetBlock(s, index,
        [Block(s, index) EXCEPT
            !.data = data \o SubSeq(@, Len(data) + 1, BLOCK_DATA_SIZE)])

clear_block(s, index) == SetBlock(s, index, ZeroBlock)

\* the loop that collects the chain of an existing record: it stops at the
\* end of the chain or once blocks_required blocks are collected
RECURSIVE ChainWalk(_, _, _, _)
ChainWalk(s, temp_block_index, used, blocks_required) ==
    IF temp_block_index = 0 THEN used
    ELSE LET used2 == Append(used, temp_block_index)
         IN  IF Len(used2) >= blocks_required THEN used2
             ELSE ChainWalk(s, get_block_header_data(s, temp_block_index).next_block_offset,
                            used2, blocks_required)

RECURSIVE ClearBlocks(_, _)
ClearBlocks(s, indices) ==
    IF indices = <<>> THEN s ELSE ClearBlocks(clear_block(s, Head(indices)), Tail(indices))

\* the loop `for i in 0..blocks_required` of store
RECURSIVE WriteBlocks(_, _, _, _, _, _, _, _)
WriteBlocks(s, serialized, used, original, i, current, prev, written) ==
    LET blocks_required == (Len(serialized) + BLOCK_DATA_SIZE - 1) \div BLOCK_DATA_SIZE
        remaining       == Len(serialized) - written
        bytes_to_write  == Min2(remaining, BLOCK_DATA_SIZE)
        s1   == store_block(s, current, SubSeq(serialized, written + 1, written + bytes_to_write))
        more == remaining > bytes_to_write
        reuse == i + 1 < Len(used)
        alloc == increment_and_allocate_block(s1)
        next == IF ~more THEN 0 ELSE IF reuse THEN used[i + 2] ELSE alloc.index
        s2   == IF more /\ ~reuse THEN alloc.s ELSE s1
        s3   == set_block_header_data(s2, current,
                    [is_primary |-> i = 0, index_in_chain |-> i, primary_index |-> original,
                     next_block_offset |-> next,
                     previous_block_offset |-> IF i = 0 THEN 0 ELSE prev,
                     serialized_node_length |-> Len(serialized), data |-> <<>>])
    IN  IF i >= blocks_required THEN s
        ELSE WriteBlocks(s3, serialized, used, original, i + 1, next, current,
                         written + bytes_to_write)

\* BlockStorage::store(serialized, index): the store after the call and the
\* record id returned
store(s, serialized, index) ==
    LET blocks_required == (Len(serialized) + BLOCK_DATA_SIZE - 1) \div BLOCK_DATA_SIZE
        alloc    == increment_and_allocate_block(s)
        s0       == IF index = 0 THEN alloc.s ELSE s
        original == IF index = 0 THEN alloc.index ELSE index
        walked   == IF index # 0 THEN ChainWalk(s0, index, <<>>, blocks_required) ELSE <<>>
        excess   == Len(walked) > blocks_required
        s1       == IF excess
                    THEN ClearBlocks(s0, SubSeq(walked, blocks_required + 1, Len(walked)))
                    ELSE s0
        used     == IF excess THEN SubSeq(walked, 1, blocks_required) ELSE walked
    IN  [s |-> WriteBlocks(s1, serialized, used, original, 0, original, 0, 0),
         id |-> original]

\* BlockStorage::load(offset): the data of every block of the chain, whole
\* blocks; an error when that is shorter than the length in the header of
\* the last block
RECURSIVE LoadChain(_, _, _)
LoadChain(s, current_block_index, serialized) ==
    LET block_header == get_block_header_data(s, current_block_index)
        start == IF block_header.is_primary THEN <<>> ELSE serialized
        bytes == start \o get_block_bytes(s, current_block_index)
    IN  IF block_header.next_block_offset = 0
        THEN IF Len(bytes) < block_header.serialized_node_length
             THEN [ok |-> FALSE, bytes |-> <<>>]
             ELSE [ok |-> TRUE, bytes |-> bytes]
        ELSE LoadChain(s, block_header.next_block_offset, bytes)

load(s, offset) == LoadChain(s, offset, <<>>)

(***************************************************************************)
(* The write-ahead log (structures/wal.rs): the rows of table `wal` in     *)
(* insertion order.  A row's data column is the concatenation of its       *)
(* quantized vectors; committed_timestamp is NULL until the row is marked. *)
(***************************************************************************)
\* last second of the clock explored
MaxTime == 2
\* rows ingested into a namespace in the model, over all its versions
MaxRows == 2
\* version directories explored
MaxVersions == 3
\* commit.rs: get_uncommitted(100000), the window in seconds, scaled down
CommitWindow == 1

NULL == -1

\* DefaultHasher over (vectors, kvs): equal contents give equal hashes; the
\* hash is carried as the content it is computed from
compute_hash(vectors, kvs) == <<vectors, kvs>>

\* the rows read back: the data column cut into vectors of VecBits bits
Chunks(data) ==
    SeqOf([i \in 1..(Len(data) \div VecBits) |->
              SubSeq(data, (i - 1) * VecBits + 1, i * VecBits)])

CommitListItem(row) ==
    [hash |-> row.hash, timestamp |-> row.added_timestamp,
     vectors |-> Chunks(row.data), kvs |-> row.metadata, rowid |-> row.id]

add_to_commit_list(wal, hash, vectors, kvs, timestamp) ==
    Append(wal, [id |-> Len(wal) + 1, hash |-> hash, data |-> Concat(vectors),
                 metadata |-> kvs, added_timestamp |-> timestamp,
                 committed_timestamp |-> NULL])

\* WAL::add_to_wal: the vectors are quantized, hashed with the KV lists and
\* appended as one row
add_to_wal(wal, vectors, kvs, timestamp) ==
    LET quantized_vectors == SeqOf([i \in 1..Len(vectors) |-> quantize(vectors[i])])
    IN  add_to_commit_list(wal, compute_hash(quantized_vectors, kvs),
                           quantized_vectors, kvs, timestamp)

\* WAL::batch_add_to_wal: one row per item of the zip
RECURSIVE batch_add_to_wal(_, _, _, _)
batch_add_to_wal(wal, vectors, kvs, timestamp) ==
    IF vectors = <<>> \/ kvs = <<>> THEN wal
    ELSE batch_add_to_wal(add_to_wal(wal, Head(vectors), Head(kvs), timestamp),
                          Tail(vectors), Tail(kvs), timestamp)

\* query_map: the selected rows, read back as commit items
Rows(kept) == SeqOf([i \in 1..Len(kept) |-> CommitListItem(kept[i])])

\* WAL::get_uncommitted: added in the last last_seconds and not committed
get_uncommitted(wal, last_seconds, current_time) ==
    LET start_time == IF current_time >= last_seconds THEN current_time - last_seconds ELSE 0
    IN  Rows(SelectSeq(wal, LAMBDA row : row.added_timestamp >= start_time
                                         /\ row.committed_timestamp = NULL))

\* WAL::get_commits_before: added before ts and committed
get_commits_before(wal, ts) ==
    Rows(SelectSeq(wal, LAMBDA row : row.added_timestamp < ts
                                         /\ row.committed_timestamp # NULL))

\* WAL::mark_commit_finished: UPDATE ... WHERE hash = ?
mark_commit_finished(wal, hash, timestamp) ==
    SeqOf([i \in 1..Len(wal) |->
              IF wal[i].hash = hash
              THEN [wal[i] EXCEPT !.committed_timestamp = timestamp]
              ELSE wal[i]])

RECURSIVE MarkAll(_, _, _)
MarkAll(wal, commits, timestamp) ==
    IF commits = <<>> THEN wal
    ELSE MarkAll(mark_commit_finished(wal, Head(commits).hash, timestamp),
                 Tail(commits), timestamp)

(***************************************************************************)
(* A namespace (services/namespace_state.rs, services/commit.rs): version  *)
(* directories, each with a WAL and an ANN tree, and the `current` link.   *)
(* The index of a version is the ANN tree NamespaceState declares; the     *)
(* calls that feed and query it follow the design document, as the         *)
(* services in the sources still address the earlier index structures.     *)
(***************************************************************************)
\* NamespaceState::new on a fresh version directory
FreshVersion == [wal |-> <<>>, tree |-> ANNTreeNew]

\* the (vector, kvs) pairs of the zip of two lists, each with the WAL row and
\* the position in the row that its vector came from
PairsOf(vectors, kvs, sources) ==
    SeqOf([i \in 1..Min2(Len(vectors), Len(kvs)) |->
              [vector |-> vectors[i], kvs |-> kvs[i],
               row |-> sources[i].row, pair |-> sources[i].pair]])

SourcesOf(commit) ==
    SeqOf([j \in 1..Len(commit.vectors) |-> [row |-> commit.rowid, pair |-> j]])

\* commit: the fold that extends one vector list and one KV list over all
\* the commits
merged_commits(commits) ==
    [vectors |-> Concat(SeqOf([c \in 1..Len(commits) |-> commits[c].vectors])),
     kvs     |-> Concat(SeqOf([c \in 1..Len(commits) |-> commits[c].kvs])),
     sources |-> Concat(SeqOf([c \in 1..Len(commits) |-> SourcesOf(commits[c])]))]

\* every pair is inserted under a fresh id, first_id onwards; the outcomes
\* are the trees the splits can leave, or a call that does not return
RECURSIVE InsertAll(_, _, _)
InsertAll(t, pairs, first_id) ==
    IF pairs = <<>> THEN {[t |-> t, returned |-> TRUE]}
    ELSE UNION { IF o.returned
                 THEN InsertAll(o.t, Tail(pairs), first_id + 1)
                 ELSE {NotReturned}
                 : o \in insert(t, Head(pairs).vector, first_id, Head(pairs).kvs) }

\* recover_point_in_time: the loop over the commits, each checked and
\* inserted in turn; inserted counts the pairs that went in
RECURSIVE RecoverCommits(_, _, _, _)
RecoverCommits(t, commits, first_id, done) ==
    IF commits = <<>> THEN {[t |-> t, returned |-> TRUE, ok |-> TRUE, done |-> done]}
    ELSE LET commit == Head(commits)
             pairs  == PairsOf(commit.vectors, commit.kvs, SourcesOf(commit))
         IN  IF Len(commit.vectors) # Len(commit.kvs)
             THEN {[t |-> t, returned |-> TRUE, ok |-> FALSE, done |-> done]}
             ELSE UNION { IF o.returned
                          THEN RecoverCommits(o.t, Tail(commits), first_id + Len(pairs),
                                              done \o pairs)
                          ELSE {[t |-> t, returned |-> FALSE, ok |-> FALSE, done |-> done]}
                          : o \in InsertAll(t, pairs, first_id) }

\* the commits the loop of recover_point_in_time gets through: those before
\* the first one whose lists differ in length
RECURSIVE Replayed(_)
Replayed(commits) ==
    IF commits = <<>> THEN <<>>
    ELSE IF Len(Head(commits).vectors) # Len(Head(commits).kvs) THEN <<>>
    ELSE <<Head(commits)>> \o Replayed(Tail(commits))

\* the query service: the query vector is quantized and the tree searched
query(t, query_vector, filters, top_k) ==
    search(t, quantize(query_vector), top_k, filters)

(***************************************************************************)
(* mmap_tree: the key-value tree and its StorageManager.  The file is a    *)
(* header of two words (used space, root offset) followed by blocks; a     *)
(* block is one flag (primary or overflow), one word for the length of the *)
(* serialized node, BLOCK_DATA_SIZE units of data and one word pointing to *)
(* the next block of the chain (0 ends it).  A word is one unit here.      *)
(***************************************************************************)
\* the element of a set of one element: Only({e}) is e, computed once
Only(S) == CHOOSE x \in S : TRUE

SIZE_OF_USIZE == 1

HEADER_SIZE == SIZE_OF_USIZE * 2

BLOCK_SIZE == BLOCK_DATA_SIZE + SIZE_OF_USIZE + (SIZE_OF_USIZE + 1)

\* node capacity: a node is full at 2 * MAX_KEYS - 1 keys, and Tree.b = MAX_KEYS
MAX_KEYS == 2

\* Option<V> of a node's values: None (above), or the value
SomeValue(v) == <<v>>

NewLeaf(offset) ==
    [keys |-> <<>>, values |-> <<>>, children |-> <<>>, node_type |-> "Leaf",
     offset |-> offset, is_root |-> FALSE, parent_offset |-> 0]

NewInternal(offset) ==
    [keys |-> <<>>, values |-> <<>>, children |-> <<>>, node_type |-> "Internal",
     offset |-> offset, is_root |-> FALSE, parent_offset |-> 0]

\* Node::serialize: type, root flag, parent offset (None as 0), the three
\* lengths, each key behind its size, each value behind its size (None as
\* size 0), the children.  A key is one unit, a value (Vec<u8>) its bytes.
serialize(node) ==
    <<IF node.node_type = "Leaf" THEN 0 ELSE 1,
      IF node.is_root THEN 1 ELSE 0,
      IF node.parent_offset = NULL THEN 0 ELSE node.parent_offset,
      Len(node.keys), Len(node.values), Len(node.children)>>
    \o Concat([i \in 1..Len(node.keys) |-> <<1, node.keys[i]>>])
    \o Concat([i \in 1..Len(node.values) |->
                 IF node.values[i] = None THEN <<0>>
                 ELSE <<Len(node.values[i][1])>> \o node.values[i][1]])
    \o node.children

\* Node::deserialize, the values: a value of size 0 is read as None
RECURSIVE DeserializeValues(_, _, _)
DeserializeValues(data, offset, n) ==
    IF n = 0 THEN [values |-> <<>>, offset |-> offset]
    ELSE LET value_size == data[offset]
             value == IF value_size > 0
                      THEN SomeValue(SubSeq(data, offset + 1, offset + value_size))
                      ELSE None
             rest  == DeserializeValues(data, offset + 1 + value_size, n - 1)
         IN  [values |-> <<value>> \o rest.values, offset |-> rest.offset]

deserialize(data) ==
    LET keys_len     == data[4]
        values_len   == data[5]
        num_children == data[6]
        keys == [i \in 1..keys_len |-> data[6 + 2 * i]]
        vs   == DeserializeValues(data, 7 + 2 * keys_len, values_len)
    IN  [keys |-> SeqOf(keys), values |-> vs.values,
         children |-> SubSeq(data, vs.offset, vs.offset + num_children - 1),
         node_type |-> IF data[1] = 0 THEN "Leaf" ELSE "Internal",
         offset |-> 0, is_root |-> (data[2] = 1), parent_offset |-> data[3]]

\* a block of a file that was never written: zeros
FreshBlock == [is_primary |-> 0, serialized_len |-> 0, data |-> Zeros, next |-> 0]

StorageManagerNew == [used_space |-> 0, root_offset |-> 0, blocks |-> <<>>]

\* the block that starts at an offset
BlockIndex(offset) == ((offset - HEADER_SIZE) \div BLOCK_SIZE) + 1

BlockAt(s, offset) ==
    IF BlockIndex(offset) \in DOMAIN s.blocks THEN s.blocks[BlockIndex(offset)]
    ELSE FreshBlock

\* StorageManager::increment_and_allocate_block: the offset handed out is
\* the used space plus the header; the file grows as needed
AllocateBlock(s) ==
    [s |-> [s EXCEPT !.used_space = @ + BLOCK_SIZE, !.blocks = Append(@, FreshBlock)],
     out |-> s.used_space + HEADER_SIZE]

NumBlocks(len) == (len + BLOCK_DATA_SIZE - 1) \div BLOCK_DATA_SIZE

\* the while loop of StorageManager::store_node
RECURSIVE StoreLoop(_, _, _, _, _, _, _, _)
StoreLoop(s, serialized, current_block_offset, written, blocks_written, needs_new_blocks, prev_num_blocks_required, is_primary) ==
    LET remaining == Len(serialized) - written
    IN  IF remaining = 0 THEN s
        ELSE
        LET bytes_to_write == Min2(remaining, BLOCK_DATA_SIZE)
            b     == BlockAt(s, current_block_offset)
            data  == [i \in 1..BLOCK_DATA_SIZE |->
                        IF i <= bytes_to_write THEN serialized[written + i]
                        ELSE b.data[i]]
            left  == remaining - bytes_to_write
            fresh == left > 0 /\ needs_new_blocks
                     /\ blocks_written + 1 >= prev_num_blocks_required
            a     == AllocateBlock(s)
            s1    == IF fresh THEN a.s ELSE s
            next  == IF left = 0 THEN 0
                     ELSE IF fresh THEN a.out ELSE b.next
            s2    == [s1 EXCEPT !.blocks[BlockIndex(current_block_offset)] =
                        [is_primary |-> is_primary,
                         serialized_len |-> Len(serialized),
                         data |-> SeqOf(data), next |-> next]]
        IN  IF left = 0 THEN s2
            ELSE Only({StoreLoop(x.s, serialized, x.next, x.written,
                                 x.blocks_written, needs_new_blocks,
                                 prev_num_blocks_required, 0) :
                       x \in {[s |-> s2, next |-> next,
                               written |-> written + bytes_to_write,
                               blocks_written |-> blocks_written + 1]}})

\* StorageManager::store_node: a node of offset 0 gets a new block, another
\* is written over its chain, which grows when the node needs more blocks
\* than the length in its primary block says it had.  Returns the storage
\* and the node with its offset.
StoreNodeAt(s, node, serialized) ==
    LET a        == AllocateBlock(s)
        s1       == IF node.offset = 0 THEN a.s ELSE s
        offset   == IF node.offset = 0 THEN a.out ELSE node.offset
        prev     == IF node.offset = 0 THEN 0
                    ELSE NumBlocks(BlockAt(s, node.offset).serialized_len)
        needs    == IF node.offset = 0 THEN TRUE
                    ELSE NumBlocks(Len(serialized)) > prev
    IN  [s |-> StoreLoop(s1, serialized, offset, 0, 0, needs, prev, 1),
         node |-> [node EXCEPT !.offset = offset]]

StorageManager_store_node(s, node) ==
    Only({StoreNodeAt(x.s, x.node, serialize(x.node)) : x \in {[s |-> s, node |-> node]}})

\* the loop of StorageManager::load_node: the serialized units of the chain
RECURSIVE LoadLoop(_, _, _)
LoadLoop(s, offset, serialized) ==
    LET b == BlockAt(s, offset)
        bytes_to_read == Min2(b.serialized_len - Len(serialized), BLOCK_DATA_SIZE)
        got == serialized \o SubSeq(b.data, 1, bytes_to_read)
    IN  IF b.next = 0 THEN got
        ELSE Only({LoadLoop(s, b.next, x) : x \in {got}})

\* StorageManager::load_node: Err when the block at the offset is not a
\* primary block, else the node deserialized from the chain, at the offset
StorageManager_load_node(s, offset) ==
    IF BlockAt(s, offset).is_primary # 1 THEN [ok |-> FALSE, node |-> NewLeaf(0)]
    ELSE [ok |-> TRUE,
          node |-> Only({[deserialize(x) EXCEPT !.offset = offset] :
                         x \in {LoadLoop(s, offset, <<>>)}})]

\* slice::binary_search on the ascending keys of a node: the position of
\* the key (from 0) when found, else the position where it would go
binary_search(keys, key) ==
    LET idx == Cardinality({i \in 1..Len(keys) : keys[i] < key})
    IN  [found |-> idx < Len(keys) /\ keys[idx + 1] = key, idx |-> idx]

InsertAt(s, i, x) == SubSeq(s, 1, i) \o <<x>> \o SubSeq(s, i + 1, Len(s))

Node_is_full(node) == Len(node.keys) >= 2 * MAX_KEYS - 1

\* Node::split of a leaf at b: the first b keys stay, the rest go to the
\* sibling, and the median is the last key that stays
Node_split(node, b) ==
    [median  |-> node.keys[b],
     node    |-> [node EXCEPT !.keys = SubSeq(@, 1, b), !.values = SubSeq(@, 1, b)],
     sibling |-> [keys |-> SubSeq(node.keys, b + 1, Len(node.keys)),
                  values |-> SubSeq(node.values, b + 1, Len(node.values)),
                  children |-> <<>>, node_type |-> "Leaf", offset |-> 0,
                  is_root |-> FALSE, parent_offset |-> node.parent_offset]]

\* Tree::new on a fresh file: an empty root leaf is stored and made the root
TreeNew ==
    LET r == StorageManager_store_node(StorageManagerNew,
                                       [NewLeaf(0) EXCEPT !.is_root = TRUE])
    IN  [r.s EXCEPT !.root_offset = r.node.offset]

\* Tree::find_entrypoint: down from an offset to the leaf for a key
RECURSIVE Tree_find_entrypoint(_, _, _)
Tree_find_entrypoint(s, current_offset, key) ==
    LET node == StorageManager_load_node(s, current_offset).node
    IN  IF node.node_type = "Internal"
        THEN Tree_find_entrypoint(s, node.children[binary_search(node.keys, key).idx + 1],
                                  key)
        ELSE current_offset

\* Tree::batch_insert, the split of a full leaf: the sibling and the node
\* are stored, then a new root is made over them (the node was the root) or
\* the median and the sibling go into the node's parent
SplitFullLeaf(s, node0, current_offset) ==
    LET sp  == Node_split(node0, MAX_KEYS)
        r1  == StorageManager_store_node(s, sp.sibling)
        r2  == StorageManager_store_node(r1.s, sp.node)
        sibling_offset == r1.node.offset
    IN  IF sp.node.is_root
        THEN LET new_root == [NewInternal(0) EXCEPT
                                !.is_root = TRUE, !.keys = <<sp.median>>,
                                !.children = <<current_offset, sibling_offset>>,
                                !.parent_offset = NULL]
                 r3 == StorageManager_store_node(r2.s, new_root)
                 s3 == [r3.s EXCEPT !.root_offset = r3.node.offset]
                 r4 == StorageManager_store_node(s3,
                          [r2.node EXCEPT !.is_root = FALSE,
                                          !.parent_offset = r3.node.offset])
                 r5 == StorageManager_store_node(r4.s,
                          [r1.node EXCEPT !.parent_offset = r3.node.offset])
             IN  [s |-> r5.s, median |-> sp.median, node |-> r4.node,
                  sibling |-> r5.node]
        ELSE LET parent == StorageManager_load_node(r2.s, r2.node.parent_offset).node
                 idx    == binary_search(parent.keys, sp.median).idx
                 r3     == StorageManager_store_node(r2.s,
                              [parent EXCEPT
                                 !.keys = InsertAt(@, idx, sp.median),
                                 !.children = InsertAt(@, idx + 1, sibling_offset)])
             IN  [s |-> r3.s, median |-> sp.median, node |-> r2.node,
                  sibling |-> r1.node]

\* Tree::batch_insert, the end of the loop body: the key is overwritten in
\* the leaf or put in its place, and the leaf is stored
InsertIntoKVLeaf(s, node, key, value) ==
    LET pos == binary_search(node.keys, key)
    IN  StorageManager_store_node(s,
            IF pos.found
            THEN [node EXCEPT !.values[pos.idx + 1] = SomeValue(value)]
            ELSE [node EXCEPT !.keys = InsertAt(@, pos.idx, key),
                              !.values = InsertAt(@, pos.idx, SomeValue(value))]).s

\* after the split the insertion goes on in the sibling when the key is at
\* or above the median, else in the node
InsertAfterSplit(sp, key, value) ==
    InsertIntoKVLeaf(sp.s, IF key >= sp.median THEN sp.sibling ELSE sp.node, key, value)

\* Tree::insert, that is batch_insert of one entry: the leaf for the key is
\* found, split when full, and the key is inserted
InsertAtLeaf(s, node, key, value) ==
    IF Node_is_full(node)
    THEN Only({InsertAfterSplit(sp, key, value) : sp \in {SplitFullLeaf(s, node, node.offset)}})
    ELSE InsertIntoKVLeaf(s, node, key, value)

Tree_insert(s, key, value) ==
    Only({InsertAtLeaf(s, node, key, value) :
          node \in {StorageManager_load_node(s,
                        Tree_find_entrypoint(s, s.root_offset, key)).node}})

\* Tree::search: down from the root; in a leaf the value of the key, None
\* when the key is not there
RECURSIVE search_node(_, _, _)
search_node(s, node_offset, key) ==
    LET node == StorageManager_load_node(s, node_offset).node
        pos  == binary_search(node.keys, key)
    IN  IF node.node_type = "Internal"
        THEN search_node(s, node.children[pos.idx + 1], key)
        ELSE IF pos.found THEN node.values[pos.idx + 1] ELSE None

Tree_search(s, key) == search_node(s, s.root_offset, key)

(***************************************************************************)
(* inverted_index: the run-length form of an ascending list of indices,    *)
(* a sequence of pairs (count, start).                                     *)
(***************************************************************************)
\* the loop of compress_indices from position i (from 1) of the indices
RECURSIVE CompressFrom(_, _, _, _, _)
CompressFrom(indices, i, current_start, count, compressed) ==
    IF i > Len(indices) THEN compressed \o <<count, current_start>>
    ELSE IF indices[i] = current_start + count
         THEN CompressFrom(indices, i + 1, current_start, count + 1, compressed)
         ELSE CompressFrom(indices, i + 1, indices[i], 1,
                           compressed \o <<count, current_start>>)

compress_indices(indices) ==
    IF indices = <<>> THEN <<>>
    ELSE CompressFrom(indices, 2, indices[1], 1, <<>>)

\* start..start + count
RunOf(start, count) == [j \in 1..count |-> start + j - 1]

\* the loop of a decompression that reads every pair: while i < len
RECURSIVE DecompressAll(_, _, _)
DecompressAll(compressed, i, decompressed) ==
    IF ~(i < Len(compressed)) THEN decompressed
    ELSE DecompressAll(compressed, i + 2,
                       decompressed \o RunOf(compressed[i + 2], compressed[i + 1]))

decompress_every_pair(compressed) == DecompressAll(compressed, 0, <<>>)

\* the loop of decompress_indices: while i < compressed.len() / 2, with i
\* (from 0) going up by 2
RECURSIVE DecompressFrom(_, _, _)
DecompressFrom(compressed, i, decompressed) ==
    IF ~(i < Len(compressed) \div 2) THEN decompressed
    ELSE DecompressFrom(compressed, i + 2,
                        decompressed \o RunOf(compressed[i + 2], compressed[i + 1]))

decompress_indices(compressed) == DecompressFrom(compressed, 0, <<>>)

(***************************************************************************)
(* Variables.                                                              *)
(***************************************************************************)
VARIABLES
    tree,        \* the node store of the ANN tree: [nodes, root]
    inserted,    \* number of insert calls made (the ids handed out)
    calibrated,  \* number of true_calibrate calls made
    status,      \* "ready", or "diverged" when a call did not return
    lastOp,      \* the last call on the tree and what it did
    bs,          \* the block store: [header, blocks]
    bsRecords,   \* record id -> the payload last stored there, and how
    bsStores,    \* number of BlockStorage::store calls made
    bsLast,      \* the last call on the block store and its result
    ns,          \* the namespace: [current, versions, next_id, status]
    now,         \* the clock, in seconds
    nsHist,      \* where each id came from, and the rows a commit answered Ok after
    nsLast,      \* the last call on the namespace and its result
    link,        \* what the path `current` is: a version, NoLink or PlainDir
    dirs,        \* the version directories vN of the namespace
    pages,       \* per directory, the pages of the index file and who wrote them
    worker,      \* the commit task of the namespace: [pc, version, next, gen]
    reader,      \* a query handler: [pc, version, next, seen]
    pitr,        \* a recovery handler: [pc, new_version]
    srvDone,     \* calls finished: [commits, queries] and the last results
    hdA,         \* first argument of hamming_distance
    hdB,         \* second argument of hamming_distance
    hdD,         \* the distance returned, NULL before the call
    kv,          \* the storage of the key-value tree: [used_space, root_offset, blocks]
    kvHist,      \* per key, the value of its most recent insert (None: never inserted)
    kvLast,      \* the last call on the key-value tree
    sm,          \* a StorageManager used directly: [used_space, root_offset, blocks]
    smNodes,     \* offset -> the node last stored there
    smLast,      \* the last call on the StorageManager and its result
    ciIn,        \* the ascending list of indices given to compress_indices
    ciMid,       \* its compressed form in a tuple, None before the call
    ciOut,       \* what decompress_indices made of that, None before the call
    ctWal,       \* the WAL rows of a namespace served over HTTP
    ctIndex,     \* the row ids whose records have been inserted into the index
    ctNow,       \* the clock of that server, in units of the commit window
    ctMutex,     \* the holder of the ACTIVE_NAMESPACES mutex, 0 when free
    ctActive,    \* whether ACTIVE_NAMESPACES has a handle for the namespace
    ctHandlers,  \* the request handlers: [pc, absent]
    ctTasks,     \* the commit tasks spawned in this process: [pc, commits, k, rows]
    ctHist,      \* what happened: process stops, rows marked by a commit that
                 \* did not fetch them, a failed commit, an append during a commit
    kpIndex,     \* a NodeMetadataIndex that KV pairs are folded into
    kpLast       \* the last call on that summary and how it ended

treeVars == <<tree, inserted, calibrated, status, lastOp>>
bsVars   == <<bs, bsRecords, bsStores, bsLast>>
nsVars   == <<ns, now, nsHist, nsLast>>
srvVars  == <<link, dirs, pages, worker, reader, pitr, srvDone>>
hdVars   == <<hdA, hdB, hdD>>
kvVars   == <<kv, kvHist, kvLast>>
smVars   == <<sm, smNodes, smLast>>
coreVars == <<treeVars, bsVars, nsVars, srvVars, hdVars>>
ciVars   == <<ciIn, ciMid, ciOut>>
ctVars   == <<ctWal, ctIndex, ctNow, ctMutex, ctActive, ctHandlers, ctTasks, ctHist>>
kpVars   == <<kpIndex, kpLast>>
extVars  == <<kvVars, smVars, ciVars, ctVars, kpVars>>
\* all but the variables of one section
notKV    == <<coreVars, smVars, ciVars, ctVars, kpVars>>
notSM    == <<coreVars, kvVars, ciVars, ctVars, kpVars>>
notCI    == <<coreVars, kvVars, smVars, ctVars, kpVars>>
notCT    == <<coreVars, kvVars, smVars, ciVars, kpVars>>
notKP    == <<coreVars, kvVars, smVars, ciVars, ctVars>>
vars     == <<coreVars, extVars>>

NoOp == [op |-> "new", vector |-> <<>>, id |-> 0, metadata |-> <<>>,
         entrypoint |-> 0, was_full |-> FALSE, sibling_offset |-> 0]

TreeInit ==
    /\ tree = ANNTreeNew
    /\ inserted = 0
    /\ calibrated = 0
    /\ status = "ready"
    /\ lastOp = NoOp

BSNoOp == [op |-> "new", index |-> 0, id |-> 0, payload |-> <<>>, prev_len |-> 0,
           ok |-> TRUE, bytes |-> <<>>]

BSInit ==
    /\ bs = BlockStorageNew
    /\ bsRecords = <<>>
    /\ bsStores = 0
    /\ bsLast = BSNoOp

NSNoOp == [op |-> "new", ok |-> TRUE, timestamp |-> 0, created |-> 0, before |-> <<>>,
           mismatch |-> FALSE, rows_before |-> 0, rows |-> {}]

\* the first NamespaceState::new: v0 is created and `current` links to it
NSInit ==
    /\ ns = [current |-> 0, versions |-> FcnOf([v \in {0} |-> FreshVersion]),
             next_id |-> 1, status |-> "ready"]
    /\ now = 0
    /\ nsHist = [sources |-> <<>>, acked |-> {}]
    /\ nsLast = NSNoOp

\* `current` as a path: NoLink when no entry of that name exists, PlainDir when
\* it is a directory of its own instead of a link to a version
NoLink   == -1
PlainDir == -2

FreshPages == [p \in 1..MaxPages |-> 0]

IdleWorker == [pc |-> "idle", version |-> 0, next |-> 1, gen |-> 0]
IdleReader == [pc |-> "idle", version |-> 0, next |-> 1, seen |-> <<>>]
IdlePitr   == [pc |-> "idle", new_version |-> 0]

\* the namespace after its first NamespaceState::new: v0 and the link to it
SrvInit ==
    /\ link = 0
    /\ dirs = {0}
    /\ pages = FcnOf([d \in {PlainDir} \cup 0..(MaxSrvVersions - 1) |-> FreshPages])
    /\ worker = IdleWorker
    /\ reader = IdleReader
    /\ pitr = IdlePitr
    /\ srvDone = [commits |-> 0, queries |-> 0, result |-> <<>>, opened |-> 0,
                  pitr_ok |-> TRUE]

\* the keys and the values (Vec<u8>) given to the key-value tree
KVKeys == 1..4

KVValues == {<<1>>, <<2>>}

KVNoOp == [op |-> "new", key |-> 0, value |-> <<>>, split |-> FALSE, n |-> 0]

\* a tree on a fresh file, nothing inserted
KVIdle ==
    /\ kv = TreeNew
    /\ kvHist = [k \in KVKeys |-> None]
    /\ kvLast = KVNoOp

SMNoOp == [op |-> "new", offset |-> 0, ok |-> TRUE, node |-> NewLeaf(0), fresh |-> TRUE,
           above |-> TRUE, n |-> 0]

\* a StorageManager on a fresh file, nothing stored
SMIdle ==
    /\ sm = StorageManagerNew
    /\ smNodes = <<>>
    /\ smLast = SMNoOp

\* no call of compress_indices is under way
CIIdle ==
    /\ ciIn = <<>>
    /\ ciMid = None
    /\ ciOut = None

\* request handlers of the server
NumHandlers == 2

IdleHandler == [pc |-> "idle", absent |-> FALSE]

\* a server just started on an empty namespace: no request yet, no task
CTIdle ==
    /\ ctWal = <<>>
    /\ ctIndex = {}
    /\ ctNow = 0
    /\ ctMutex = 0
    /\ ctActive = FALSE
    /\ ctHandlers = [h \in 1..NumHandlers |-> IdleHandler]
    /\ ctTasks = <<>>
    /\ ctHist = [stops |-> 0, stolen |-> {}, failed |-> FALSE, overlapped |-> FALSE]

KPNoOp == [op |-> "new", kv |-> KVPair("", StringValue("")),
           before |-> NodeMetadataIndex, panicked |-> FALSE]

\* NodeMetadataIndex::new: the summary has no key, no pair was folded
KPIdle ==
    /\ kpIndex = NodeMetadataIndex
    /\ kpLast = KPNoOp

\* the parts of the state that later sections add are at rest
ExtIdle == KVIdle /\ SMIdle /\ CIIdle /\ CTIdle /\ KPIdle

\* no call of hamming_distance is under way
HDIdle ==
    /\ hdA = <<>>
    /\ hdB = <<>>
    /\ hdD = NULL

\* everything but the later sections is at rest
CoreIdle == TreeInit /\ BSInit /\ NSInit /\ SrvInit /\ HDIdle

(***************************************************************************)
(* Spec: the ANN tree under insert and true_calibrate.                     *)
(***************************************************************************)
Init == TreeInit /\ BSInit /\ NSInit /\ SrvInit /\ HDIdle /\ ExtIdle

Insert(vector, metadata) ==
    /\ status = "ready"
    /\ inserted < MaxInserts
    /\ \E o \in insert(tree, vector, inserted + 1, metadata) :
          /\ tree' = IF o.returned THEN o.t ELSE tree
          /\ status' = IF o.returned THEN "ready" ELSE "diverged"
          /\ lastOp' = [op |-> "insert", vector |-> vector, id |-> inserted + 1,
                        metadata |-> metadata, entrypoint |-> o.entrypoint,
                        was_full |-> o.was_full, sibling_offset |-> o.sibling_offset]
    /\ inserted' = inserted + 1
    /\ UNCHANGED <<calibrated, bsVars, nsVars, srvVars, hdVars, extVars>>

Calibrate ==
    /\ status = "ready"
    /\ calibrated < MaxCalibrates
    /\ \E t \in true_calibrate(tree) : tree' = t
    /\ calibrated' = calibrated + 1
    /\ lastOp' = [NoOp EXCEPT !.op = "calibrate"]
    /\ UNCHANGED <<inserted, status, bsVars, nsVars, srvVars, hdVars, extVars>>

Next ==
    \/ \E in \in Inputs : Insert(in.vector, in.metadata)
    \/ Calibrate

Spec == Init /\ [][Next]_vars

(***************************************************************************)
(* SpecBS: the block store under store and load.  Records are rewritten    *)
(* and loaded at the ids store has returned.                               *)
(***************************************************************************)
InitBS == BSInit /\ TreeInit /\ NSInit /\ SrvInit /\ HDIdle /\ ExtIdle

\* store(serialized, 0): a new record
StoreNew(serialized) ==
    /\ bsStores < MaxStores
    /\ LET r == store(bs, serialized, 0)
       IN  /\ bs' = r.s
           /\ bsRecords' = FcnOf([x \in DOMAIN bsRecords \cup {r.id} |->
                                IF x = r.id THEN [payload |-> serialized, rewritten |-> FALSE]
                                ELSE bsRecords[x]])
           /\ bsLast' = [BSNoOp EXCEPT !.op = "store", !.id = r.id, !.payload = serialized]
    /\ bsStores' = bsStores + 1
    /\ UNCHANGED <<treeVars, nsVars, srvVars, hdVars, extVars>>

\* store(serialized, index) on the id of an existing record
Rewrite(index, serialized) ==
    /\ bsStores < MaxStores
    /\ index \in DOMAIN bsRecords
    /\ LET r == store(bs, serialized, index)
       IN  /\ bs' = r.s
           /\ bsRecords' = [bsRecords EXCEPT ![index] =
                                [payload |-> serialized, rewritten |-> TRUE]]
           /\ bsLast' = [BSNoOp EXCEPT !.op = "store", !.index = index, !.id = r.id,
                                       !.payload = serialized,
                                       !.prev_len = Len(bsRecords[index].payload)]
    /\ bsStores' = bsStores + 1
    /\ UNCHANGED <<treeVars, nsVars, srvVars, hdVars, extVars>>

\* load(offset) of an existing record
Load(offset) ==
    /\ offset \in DOMAIN bsRecords
    /\ LET r == load(bs, offset)
       IN  bsLast' = [BSNoOp EXCEPT !.op = "load", !.id = offset,
                                    !.payload = bsRecords[offset].payload,
                                    !.ok = r.ok, !.bytes = r.bytes]
    /\ UNCHANGED <<bs, bsRecords, bsStores, treeVars, nsVars, srvVars, hdVars, extVars>>

NextBS ==
    \/ \E serialized \in Payloads : StoreNew(serialized)
    \/ \E index \in DOMAIN bsRecords, serialized \in Payloads : Rewrite(index, serialized)
    \/ \E offset \in DOMAIN bsRecords : Load(offset)

SpecBS == InitBS /\ [][NextBS]_vars

(***************************************************************************)
(* SpecNS: a namespace under ingest, commit, point-in-time recovery and    *)
(* the clock.  Every request opens the namespace through `current`         *)
(* (main.rs), so each call works on the version `current` links to.        *)
(***************************************************************************)
FloatA == <<-1, -1>>
FloatB == <<0, 1>>

\* the bodies of the ingest requests: one record, two records in one row, or
\* two vectors with one KV-list
WalInputs ==
    { [vectors |-> <<FloatA>>, kvs |-> <<MetaA>>],
      [vectors |-> <<FloatB>>, kvs |-> <<MetaB>>],
      [vectors |-> <<FloatA, FloatB>>, kvs |-> <<MetaA, MetaB>>],
      [vectors |-> <<FloatA, FloatB>>, kvs |-> <<MetaA>>] }

\* the batches ingested: two rows of one record each; a batch with more KV
\* lists than vector lists; a batch whose one item has two vectors and one
\* KV-list
BatchInputs ==
    { [vectors |-> << <<FloatA>>, <<FloatB>> >>, kvs |-> << <<MetaA>>, <<MetaB>> >>],
      [vectors |-> << <<FloatA>> >>, kvs |-> << <<MetaA>>, <<MetaB>> >>],
      [vectors |-> << <<FloatA, FloatB>> >>, kvs |-> << <<MetaA>> >>] }

InitNS == NSInit /\ TreeInit /\ BSInit /\ SrvInit /\ HDIdle /\ ExtIdle

Current == ns.versions[ns.current]

SetCurrent(version) == [ns EXCEPT !.versions[ns.current] = version]

\* the rows ingested so far, over all versions
RECURSIVE TotalRows(_)
TotalRows(versions) ==
    IF versions = {} THEN 0
    ELSE LET v == CHOOSE v \in versions : TRUE
         IN  Len(ns.versions[v].wal) + TotalRows(versions \ {v})

\* the rows of the current WAL, as (version, row id) pairs
CurrentRows(wal) == {<<ns.current, i>> : i \in 1..Len(wal)}

\* the ids first_id onwards are recorded with the rows their pairs came from
Sourced(sources, pairs, version) ==
    sources \o SeqOf([i \in 1..Len(pairs) |->
                         [version |-> version, row |-> pairs[i].row, pair |-> pairs[i].pair]])

\* CommitService::add_to_wal
AddToWal(vectors, kvs) ==
    /\ ns.status = "ready"
    /\ TotalRows(DOMAIN ns.versions) < MaxRows
    /\ IF Len(vectors) # Len(vectors)
       THEN /\ nsLast' = [NSNoOp EXCEPT !.op = "add_to_wal", !.ok = FALSE,
                                        !.mismatch = Len(vectors) # Len(kvs),
                                        !.rows_before = Len(Current.wal)]
            /\ UNCHANGED ns
       ELSE /\ ns' = SetCurrent([Current EXCEPT
                         !.wal = add_to_wal(Current.wal, vectors, kvs, now)])
            /\ nsLast' = [NSNoOp EXCEPT !.op = "add_to_wal",
                                        !.mismatch = Len(vectors) # Len(kvs),
                                        !.rows_before = Len(Current.wal)]
    /\ UNCHANGED <<now, nsHist, treeVars, bsVars, srvVars, hdVars, extVars>>

\* the lists of a batch differ in length, or the lists of one of its items do
BatchMismatch(vectors, kvs) ==
    \/ Len(vectors) # Len(kvs)
    \/ \E i \in 1..Min2(Len(vectors), Len(kvs)) : Len(vectors[i]) # Len(kvs[i])

\* CommitService::batch_add_to_wal
BatchAddToWal(vectors, kvs) ==
    /\ ns.status = "ready"
    /\ TotalRows(DOMAIN ns.versions) + Min2(Len(vectors), Len(kvs)) <= MaxRows
    /\ IF Len(vectors) # Len(kvs)
       THEN /\ nsLast' = [NSNoOp EXCEPT !.op = "batch_add_to_wal", !.ok = FALSE,
                                        !.mismatch = BatchMismatch(vectors, kvs),
                                        !.rows_before = Len(Current.wal)]
            /\ UNCHANGED ns
       ELSE /\ ns' = SetCurrent([Current EXCEPT
                         !.wal = batch_add_to_wal(Current.wal, vectors, kvs, now)])
            /\ nsLast' = [NSNoOp EXCEPT !.op = "batch_add_to_wal",
                                        !.mismatch = BatchMismatch(vectors, kvs),
                                        !.rows_before = Len(Current.wal)]
    /\ UNCHANGED <<now, nsHist, treeVars, bsVars, srvVars, hdVars, extVars>>

\* CommitService::commit: the uncommitted rows of the window are merged,
\* every pair is inserted, the tree is calibrated once and the rows marked
Commit ==
    /\ ns.status = "ready"
    /\ LET commits == get_uncommitted(Current.wal, CommitWindow, now)
           merged  == merged_commits(commits)
           pairs   == PairsOf(merged.vectors, merged.kvs, merged.sources)
       IN  IF commits = <<>>
           THEN /\ nsLast' = [NSNoOp EXCEPT !.op = "commit"]
                /\ nsHist' = [nsHist EXCEPT !.acked = @ \cup CurrentRows(Current.wal)]
                /\ UNCHANGED ns
           ELSE IF Len(merged.vectors) # Len(merged.kvs)
           THEN /\ nsLast' = [NSNoOp EXCEPT !.op = "commit", !.ok = FALSE]
                /\ UNCHANGED <<ns, nsHist>>
           ELSE \E o \in InsertAll(Current.tree, pairs, ns.next_id) :
                  IF ~o.returned
                  THEN /\ ns' = [ns EXCEPT !.status = "diverged"]
                       /\ nsLast' = [NSNoOp EXCEPT !.op = "commit", !.ok = FALSE]
                       /\ UNCHANGED nsHist
                  ELSE \E t \in true_calibrate(o.t) :
                         /\ ns' = [SetCurrent([wal  |-> MarkAll(Current.wal, commits, now),
                                               tree |-> t])
                                      EXCEPT !.next_id = @ + Len(pairs)]
                         /\ nsHist' = [sources |-> Sourced(nsHist.sources, pairs, ns.current),
                                       acked   |-> nsHist.acked \cup CurrentRows(Current.wal)]
                         /\ nsLast' = [NSNoOp EXCEPT
                                          !.op = "commit",
                                          !.rows = {commits[c].rowid : c \in 1..Len(commits)}]
    /\ UNCHANGED <<now, treeVars, bsVars, srvVars, hdVars, extVars>>

\* CommitService::recover_point_in_time
RecoverPointInTime(timestamp) ==
    /\ ns.status = "ready"
    /\ Cardinality(DOMAIN ns.versions) < MaxVersions
    /\ LET versions    == DOMAIN ns.versions
           max_version == CHOOSE v \in versions : \A w \in versions : w <= v
           new_version == max_version + 1
           commits     == get_commits_before(Current.wal, timestamp)
           created(fresh_state) ==
               FcnOf([v \in versions \cup {new_version} |->
                         IF v = new_version THEN fresh_state ELSE ns.versions[v]])
       IN  IF commits = <<>>
           THEN /\ ns' = [ns EXCEPT !.versions = created(FreshVersion)]
                /\ nsLast' = [NSNoOp EXCEPT !.op = "recover_point_in_time",
                                            !.timestamp = timestamp,
                                            !.created = new_version,
                                            !.before = ns.versions]
                /\ UNCHANGED nsHist
           ELSE \E o \in RecoverCommits(FreshVersion.tree, commits, ns.next_id, <<>>) :
                  LET fresh_state == [wal |-> MarkAll(FreshVersion.wal, Replayed(commits), now),
                                      tree |-> o.t]
                  IN  /\ ns' = [ns EXCEPT
                                   !.versions = created(fresh_state),
                                   !.current  = IF o.ok THEN new_version ELSE @,
                                   !.next_id  = @ + Len(o.done),
                                   !.status   = IF o.returned THEN "ready" ELSE "diverged"]
                      /\ nsHist' = [nsHist EXCEPT
                                       !.sources = Sourced(@, o.done, ns.current)]
                      /\ nsLast' = [NSNoOp EXCEPT !.op = "recover_point_in_time",
                                                  !.ok = o.ok, !.timestamp = timestamp,
                                                  !.created = new_version,
                                                  !.before = ns.versions]
    /\ UNCHANGED <<now, treeVars, bsVars, srvVars, hdVars, extVars>>

\* a second passes
Tick ==
    /\ now < MaxTime
    /\ now' = now + 1
    /\ UNCHANGED <<ns, nsHist, nsLast, treeVars, bsVars, srvVars, hdVars, extVars>>

NextNS ==
    \/ \E in \in WalInputs : AddToWal(in.vectors, in.kvs)
    \/ \E in \in BatchInputs : BatchAddToWal(in.vectors, in.kvs)
    \/ Commit
    \/ \E timestamp \in 0..(MaxTime + 1) : RecoverPointInTime(timestamp)
    \/ Tick

SpecNS == InitNS /\ [][NextNS]_vars

(***************************************************************************)
(* SpecSrv: the tasks main.rs runs on one namespace.  #[tokio::main] is    *)
(* the multi-threaded runtime: the commit task spawned by                  *)
(* ensure_namespace_initialized and the handlers of the routes run on      *)
(* different threads, and a step of one may come between any two steps of  *)
(* another.  The mutex of main.rs guards the map of task handles, and the  *)
(* commit task locks a CommitService of its own; each task opens the       *)
(* namespace for itself and maps the same files.  A page is what one       *)
(* BlockStorage::store writes and one load reads; it holds the number of   *)
(* the commit that wrote it.                                               *)
(***************************************************************************)
\* BlockStorage::acquire_lock and release_lock return Ok(()) before they
\* reach the lock service: a call never waits
acquire_lock(index) == TRUE
release_lock(index) == TRUE

\* NamespaceState::new(".../current"): versions exist, so no v0 is made;
\* create_dir_all(current/wal) goes through the link when there is one and
\* makes `current` a directory when there is none.  The state opened is what
\* the path resolves to afterwards.
NamespaceStateNew(l) ==
    IF l = NoLink THEN [link |-> PlainDir, opened |-> PlainDir]
    ELSE [link |-> l, opened |-> l]

MaxOf(S) == CHOOSE x \in S : \A y \in S : y <= x

\* the commit task: the interval fires, CommitService::new, commit()
WorkerOpen(has_rows) ==
    /\ worker.pc = "idle"
    /\ srvDone.commits < MaxCommits
    /\ LET st == NamespaceStateNew(link)
       IN  /\ link' = st.link
           /\ IF has_rows
              THEN /\ worker' = [pc |-> "writing", version |-> st.opened, next |-> 1,
                                 gen |-> srvDone.commits + 1]
                   /\ UNCHANGED srvDone
              ELSE /\ worker' = IdleWorker
                   /\ srvDone' = [srvDone EXCEPT !.commits = @ + 1]
    /\ UNCHANGED <<dirs, pages, reader, pitr, treeVars, bsVars, nsVars, hdVars, extVars>>

\* one BlockStorage::store of the commit
WorkerStore ==
    /\ worker.pc = "writing"
    /\ acquire_lock(worker.next)
    /\ pages' = [pages EXCEPT ![worker.version][worker.next] = worker.gen]
    /\ release_lock(worker.next)
    /\ IF worker.next = MaxPages
       THEN /\ worker' = IdleWorker
            /\ srvDone' = [srvDone EXCEPT !.commits = @ + 1]
       ELSE /\ worker' = [worker EXCEPT !.next = @ + 1]
            /\ UNCHANGED srvDone
    /\ UNCHANGED <<link, dirs, reader, pitr, treeVars, bsVars, nsVars, hdVars, extVars>>

\* the query route: QueryService::new, then query()
QueryOpen ==
    /\ reader.pc = "idle"
    /\ srvDone.queries < MaxQueries
    /\ LET st == NamespaceStateNew(link)
       IN  /\ link' = st.link
           /\ reader' = [pc |-> "reading", version |-> st.opened, next |-> 1,
                         seen |-> <<>>]
    /\ UNCHANGED <<dirs, pages, worker, pitr, srvDone, treeVars, bsVars, nsVars, hdVars, extVars>>

\* one BlockStorage::load of the query
QueryLoad ==
    /\ reader.pc = "reading"
    /\ acquire_lock(reader.next)
    /\ release_lock(reader.next)
    /\ LET seen == Append(reader.seen, pages[reader.version][reader.next])
       IN  IF reader.next = MaxPages
           THEN /\ reader' = IdleReader
                /\ srvDone' = [srvDone EXCEPT !.queries = @ + 1, !.result = seen,
                                              !.opened = reader.version]
           ELSE /\ reader' = [reader EXCEPT !.next = @ + 1, !.seen = seen]
                /\ UNCHANGED srvDone
    /\ UNCHANGED <<link, dirs, pages, worker, pitr, treeVars, bsVars, nsVars, hdVars, extVars>>

\* the pitr route up to the swap: CommitService::new, the new version
\* directory, the commits replayed into it; Ok at once when there are none
PitrBuild(has_commits) ==
    /\ pitr.pc = "idle"
    /\ Cardinality(dirs) < MaxSrvVersions
    /\ LET st == NamespaceStateNew(link)
           new_version == MaxOf(dirs) + 1
       IN  /\ link' = st.link
           /\ dirs' = dirs \cup {new_version}
           /\ IF has_commits
              THEN /\ pitr' = [pc |-> "built", new_version |-> new_version]
                   /\ UNCHANGED srvDone
              ELSE /\ pitr' = IdlePitr
                   /\ srvDone' = [srvDone EXCEPT !.pitr_ok = TRUE]
    /\ UNCHANGED <<pages, worker, reader, treeVars, bsVars, nsVars, hdVars, extVars>>

\* std::fs::remove_file(&current_path)?: unlinks a link, fails on a directory
PitrRemoveFile ==
    /\ pitr.pc = "built"
    /\ IF link >= 0
       THEN /\ link' = NoLink
            /\ pitr' = [pitr EXCEPT !.pc = "removed"]
            /\ UNCHANGED srvDone
       ELSE /\ pitr' = IdlePitr
            /\ srvDone' = [srvDone EXCEPT !.pitr_ok = FALSE]
            /\ UNCHANGED link
    /\ UNCHANGED <<dirs, pages, worker, reader, treeVars, bsVars, nsVars, hdVars, extVars>>

\* unix_fs::symlink(&new_version_path, &current_path)?: fails when the path
\* exists again
PitrSymlink ==
    /\ pitr.pc = "removed"
    /\ IF link = NoLink
       THEN /\ link' = pitr.new_version
            /\ srvDone' = [srvDone EXCEPT !.pitr_ok = TRUE]
       ELSE /\ srvDone' = [srvDone EXCEPT !.pitr_ok = FALSE]
            /\ UNCHANGED link
    /\ pitr' = IdlePitr
    /\ UNCHANGED <<dirs, pages, worker, reader, treeVars, bsVars, nsVars, hdVars, extVars>>

InitSrv == SrvInit /\ TreeInit /\ BSInit /\ NSInit /\ HDIdle /\ ExtIdle

NextSrv ==
    \/ \E has_rows \in BOOLEAN : WorkerOpen(has_rows)
    \/ WorkerStore
    \/ QueryOpen
    \/ QueryLoad
    \/ \E has_commits \in BOOLEAN : PitrBuild(has_commits)
    \/ PitrRemoveFile
    \/ PitrSymlink

SpecSrv == InitSrv /\ [][NextSrv]_vars

(***************************************************************************)
(* SpecHD: math/hamming_distance.rs on arrays of QUANTIZED_VECTOR_SIZE     *)
(* bytes.  crate::constants is not part of the sources; the size is scaled *)
(* down, the bytes keep their eight bits and the sum its sixteen.          *)
(***************************************************************************)
QUANTIZED_VECTOR_SIZE == 2
U16 == 65536

ByteValues == {0, 1, 85, 170, 254, 255}
ByteVectors == [1..QUANTIZED_VECTOR_SIZE -> ByteValues]

\* u8::count_ones
RECURSIVE count_ones(_)
count_ones(x) == IF x = 0 THEN 0 ELSE (x % 2) + count_ones(x \div 2)

\* x ^ y on u8
RECURSIVE BitXor(_, _)
BitXor(x, y) ==
    IF x = 0 /\ y = 0 THEN 0
    ELSE (((x % 2) + (y % 2)) % 2) + 2 * BitXor(x \div 2, y \div 2)

\* x | y on u8
RECURSIVE BitOr(_, _)
BitOr(x, y) ==
    IF x = 0 /\ y = 0 THEN 0
    ELSE (IF (x % 2) + (y % 2) > 0 THEN 1 ELSE 0) + 2 * BitOr(x \div 2, y \div 2)

RECURSIVE FoldOr(_, _, _, _)
FoldOr(a, b, i, acc) ==
    IF i > Min2(Len(a), Len(b)) THEN acc
    ELSE FoldOr(a, b, i + 1, (acc + count_ones(BitOr(a[i], b[i]))) % U16)

\* a kernel that counts the bits of x | y
hamming_distance_or(a, b) == FoldOr(a, b, 1, 0)

\* a.iter().zip(b.iter()).fold(0, |acc, (&x, &y)| acc + (x ^ y).count_ones() as u16);
\* hamming_distance on the vectors of the tree is the same count, bit by bit
RECURSIVE Fold(_, _, _, _)
Fold(a, b, i, acc) ==
    IF i > Min2(Len(a), Len(b)) THEN acc
    ELSE Fold(a, b, i + 1, (acc + count_ones(BitXor(a[i], b[i]))) % U16)

hamming_distance_u8(a, b) == Fold(a, b, 1, 0)

InitHD ==
    /\ hdA \in ByteVectors
    /\ hdB \in ByteVectors
    /\ hdD = NULL
    /\ TreeInit /\ BSInit /\ NSInit /\ SrvInit /\ ExtIdle

HammingDistance ==
    /\ hdD = NULL
    /\ hdD' = hamming_distance_u8(hdA, hdB)
    /\ UNCHANGED <<hdA, hdB, treeVars, bsVars, nsVars, srvVars, extVars>>

NextHD == HammingDistance

SpecHD == InitHD /\ [][NextHD]_vars

(***************************************************************************)
(* What is reachable from the root of the ANN tree.                        *)
(***************************************************************************)
\* the offsets reached from the offsets S through the child lists
RECURSIVE Reach(_, _)
Reach(t, S) ==
    LET more == S \cup UNION {Range(t.nodes[o].children) : o \in S}
    IN  IF more = S THEN S ELSE Reach(t, more)

Reachable(t) == Reach(t, {t.root})

ReachableLeaves(t) == {o \in Reachable(t) : t.nodes[o].node_type = "Leaf"}

\* the positions of leaf o that hold the entry id
Holds(t, o, id) == {i \in 1..Len(t.nodes[o].ids) : t.nodes[o].ids[i] = id}

\* the (id, KV list) entries of the leaves below offset o
SubtreeRecords(t, o) ==
    UNION { {[id |-> t.nodes[l].ids[i], metadata |-> t.nodes[l].metadata[i]] :
                i \in 1..Len(t.nodes[l].ids)} :
            l \in {x \in Reach(t, {o}) : t.nodes[x].node_type = "Leaf"} }

(***************************************************************************)
(* C2.  After ANNTree::insert(qv, id, kvs) has returned, the entry is in   *)
(* exactly one leaf reachable from the root: the entry leaf when that leaf *)
(* was not full; when it was full and was split, the one of the two        *)
(* resulting leaves whose centroid is nearer to qv, the left one on a tie. *)
(***************************************************************************)
C2_InsertStoresEntry ==
    (lastOp.op = "insert" /\ status = "ready") =>
        LET holders  == {o \in ReachableLeaves(tree) : Holds(tree, o, lastOp.id) # {}}
            toLeft   == hamming_distance(lastOp.vector,
                            find_modes(tree.nodes[lastOp.entrypoint].vectors))
            toRight  == hamming_distance(lastOp.vector,
                            find_modes(tree.nodes[lastOp.sibling_offset].vectors))
            expected == IF ~lastOp.was_full THEN lastOp.entrypoint
                        ELSE IF toLeft <= toRight THEN lastOp.entrypoint
                        ELSE lastOp.sibling_offset
        IN  /\ holders = {expected}
            /\ Cardinality(Holds(tree, expected, lastOp.id)) = 1

(***************************************************************************)
(* The filters and queries the claims about search and pruning range over. *)
(***************************************************************************)
Filters ==
    { FEq("c", "a"), FEq("c", "b"), FIn("c", {"a", "b"}),
      FGt("n", 0), FGte("n", 4), FLt("n", 4), FLte("f", 4), FGte("f", 3),
      FAnd(<<FEq("c", "a"), FLte("n", 2)>>),
      FOr(<<FEq("c", "a"), FEq("c", "b")>>) }

(***************************************************************************)
(* C4.  Every record ANNTree::search returns satisfies the filter: And     *)
(* needs all sub-filters, Or any; Eq and In compare the string under the   *)
(* key; Gt, Gte, Lt and Lte compare the number under the key with the      *)
(* bound; a record without the key does not match.                         *)
(***************************************************************************)
C4_SearchResultsMatch ==
    status = "ready" =>
        \A qv \in Vector, top_k \in 1..MaxTopK, filters \in Filters :
            \A r \in Range(search(tree, qv, top_k, filters)) :
                Matches(filters, r.metadata)

(***************************************************************************)
(* C5.  Pruning is sound: for every node reachable from the root and every *)
(* filter, when some record of the node's subtree satisfies the filter,    *)
(* should_prune(filter, node.node_metadata) is false.                      *)
(***************************************************************************)
C5_PruningSound ==
    \A o \in Reachable(tree), filters \in Filters :
        (\E r \in SubtreeRecords(tree, o) : Matches(filters, r.metadata))
            => ~should_prune(filters, load_node(tree, o).node_metadata)

(***************************************************************************)
(* C8.  After any insert or calibrate, for every reachable node N that is  *)
(* not the root, the node at N.parent_offset lists N's offset among its    *)
(* children and has as many vectors as children.                           *)
(***************************************************************************)
C8_ParentLinks ==
    (lastOp.op \in {"insert", "calibrate"} /\ status = "ready") =>
        \A o \in Reachable(tree) \ {tree.root} :
            LET p == tree.nodes[o].parent_offset
            IN  /\ p \in 1..Len(tree.nodes)
                /\ o \in Range(tree.nodes[p].children)
                /\ Len(tree.nodes[p].vectors) = Len(tree.nodes[p].children)

(***************************************************************************)
(* C9.  After any sequence of ANNTree::new, insert and true_calibrate,     *)
(* exactly one stored node has is_root = true, and the root offset of the  *)
(* header is the offset of that node.                                      *)
(***************************************************************************)
C9_SingleRoot ==
    {o \in 1..Len(tree.nodes) : tree.nodes[o].is_root} = {tree.root}

(***************************************************************************)
(* C10.  After every insert and calibrate, the node_metadata of each       *)
(* reachable internal node is the combination of its children's            *)
(* node_metadata, and that of each reachable leaf the aggregation of the   *)
(* KV lists it holds.  Summaries are compared as they are read back from   *)
(* the store.                                                              *)
(***************************************************************************)
C10_SummariesExact ==
    (lastOp.op \in {"insert", "calibrate"} /\ status = "ready") =>
        \A o \in Reachable(tree) :
            LET node == load_node(tree, o)
                expected == IF node.node_type = "Leaf"
                            THEN SummaryOfRecords(NodeMetadataIndex, node.metadata)
                            ELSE compute_node_metadata(tree, node)
            IN  node.node_metadata = NodeMetadataIndexRoundTrip(expected)

(***************************************************************************)
(* C6.  For any byte string s, the id returned by store(s, 0) satisfies    *)
(* load(id) = s, the same bytes and the same length, and this stays true   *)
(* after any sequence of store and load calls on other record ids.         *)
(***************************************************************************)
C6_LoadReturnsStored ==
    \A id \in DOMAIN bsRecords :
        ~bsRecords[id].rewritten =>
            load(bs, id) = [ok |-> TRUE, bytes |-> bsRecords[id].payload]

(***************************************************************************)
(* C7.  After store(t, id) has rewritten an existing record id with a      *)
(* payload t shorter than the one stored there before, load(id) returns    *)
(* exactly t: no byte of the earlier payload and no extra byte.            *)
(***************************************************************************)
C7_ShorterRewriteExact ==
    (bsLast.op = "store" /\ bsLast.index # 0 /\ Len(bsLast.payload) < bsLast.prev_len) =>
        load(bs, bsLast.id) = [ok |-> TRUE, bytes |-> bsLast.payload]


(***************************************************************************)
(* The queries the claims about a namespace range over.                    *)
(***************************************************************************)
QueryVectors == {<<-1, -1>>, <<1, 1>>, <<-1, 1>>}

\* the records stored in a namespace version: the pairs of its WAL rows
RECURSIVE RecordCount(_)
RecordCount(wal) ==
    IF wal = <<>> THEN 0 ELSE Len(Head(wal).metadata) + RecordCount(Tail(wal))

C3_RecoveredOnlyBefore ==
    (nsLast.op = "recover_point_in_time" /\ nsLast.ok /\ ns.status = "ready") =>
        \A qv \in QueryVectors, top_k \in 1..MaxTopK, filters \in Filters :
            \A r \in Range(query(Current.tree, qv, filters, top_k)) :
                LET src == nsHist.sources[r.id]
                    row == ns.versions[src.version].wal[src.row]
                IN  /\ row.added_timestamp < nsLast.timestamp
                    /\ row.committed_timestamp # NULL

(***************************************************************************)
(* C11.  Immediately after true_calibrate has returned, no node reachable  *)
(* from the root, leaf or internal, is full: each holds fewer than K       *)
(* entries.                                                                *)
(***************************************************************************)
C11_NoFullNodeAfterCalibrate ==
    lastOp.op = "calibrate" =>
        \A o \in Reachable(tree) : ~is_full(tree.nodes[o])

(***************************************************************************)
(* C12.  true_calibrate preserves the leaves: the leaves reachable from    *)
(* the root, and so the set of (id, vector, kvs) entries they hold, are    *)
(* the same before and after the call, and no leaf's vectors, ids or       *)
(* metadata are changed by it.                                             *)
(***************************************************************************)
\* the (id, vector, kvs) entries of the leaves reachable from the root
LeafEntries(t) ==
    UNION { {[id |-> t.nodes[l].ids[i], vector |-> t.nodes[l].vectors[i],
              kvs |-> t.nodes[l].metadata[i]] : i \in 1..Len(t.nodes[l].ids)} :
            l \in ReachableLeaves(t) }

CalibrateKeepsLeaves ==
    calibrated' = calibrated + 1 =>
        /\ ReachableLeaves(tree') = ReachableLeaves(tree)
        /\ LeafEntries(tree') = LeafEntries(tree)
        /\ \A l \in ReachableLeaves(tree) :
              /\ tree'.nodes[l].vectors  = tree.nodes[l].vectors
              /\ tree'.nodes[l].ids      = tree.nodes[l].ids
              /\ tree'.nodes[l].metadata = tree.nodes[l].metadata

C12_CalibratePreservesLeaves == [][CalibrateKeepsLeaves]_vars

\* a calibrate that split its new root over three or more leaves with entries
C12_Witness ==
    /\ lastOp.op = "calibrate"
    /\ Cardinality(ReachableLeaves(tree)) >= K
    /\ LeafEntries(tree) # {}
    /\ \E c \in Range(tree.nodes[tree.root].children) :
          tree.nodes[c].node_type = "Internal"

(***************************************************************************)
(* The tasks of the server.                                                *)
(***************************************************************************)
\* C13: a query and a commit on the same namespace never overlap: a query
\* never has the namespace state open and is reading its pages while a commit
\* on the same state is between its first and its last write.
C13_QueryCommitExclusive ==
    ~(/\ worker.pc = "writing"
      /\ reader.pc = "reading"
      /\ worker.version = reader.version)

\* a query answers from pages of one commit
QueryReadsOneCommit ==
    \A i, j \in 1..Len(srvDone.result) : srvDone.result[i] = srvDone.result[j]

\* C14: at every instant `current` is a link to a version directory, the old
\* one or the new one, and a reader that resolved it has opened a version.
C14_CurrentNeverMissing ==
    /\ link \in dirs
    /\ reader.pc = "reading" => reader.version \in dirs

(***************************************************************************)
(* Versions of a namespace.                                                *)
(***************************************************************************)
\* the call left the version directories it found as they were and made one
\* more, numbered max + 1
RecoveryAddsAVersion ==
    nsLast.op = "recover_point_in_time" =>
        /\ nsLast.created = MaxOf(DOMAIN nsLast.before) + 1
        /\ nsLast.created \notin DOMAIN nsLast.before
        /\ nsLast.created \in DOMAIN ns.versions
        /\ \A v \in DOMAIN nsLast.before :
              v \in DOMAIN ns.versions /\ ns.versions[v] = nsLast.before[v]

\* C15: every recover_point_in_time creates the version directory numbered
\* max + 1, leaves every existing version directory as it was, and when it
\* returns Ok `current` links to the version it created.
C15_RecoveryCreatesAndLinks ==
    /\ RecoveryAddsAVersion
    /\ (nsLast.op = "recover_point_in_time" /\ nsLast.ok /\ ns.status = "ready") =>
           ns.current = nsLast.created

(***************************************************************************)
(* Ingest.                                                                 *)
(***************************************************************************)
\* C16: an ingest call (add_to_wal, batch_add_to_wal) whose vector list and
\* KV-list list differ in length is rejected with InvalidInput and leaves the
\* WAL with the rows it had.
C16_MismatchRejected ==
    (nsLast.op \in {"add_to_wal", "batch_add_to_wal"} /\ nsLast.mismatch) =>
        /\ ~nsLast.ok
        /\ Len(Current.wal) = nsLast.rows_before

\* the same for the calls whose outer lists differ in length
BatchOuterMismatchRejected ==
    (nsLast.op = "batch_add_to_wal" /\ ~nsLast.ok) =>
        Len(Current.wal) = nsLast.rows_before

(***************************************************************************)
(* Rows of equal content.                                                  *)
(***************************************************************************)
\* the rows i < j the last commit fetched together that carry the same hash
TwinRows ==
    {ij \in nsLast.rows \X nsLast.rows :
        ij[1] < ij[2] /\ Current.wal[ij[1]].hash = Current.wal[ij[2]].hash}

\* the entries of the index that came from pair p of row i
EntriesOf(i, p) ==
    {e \in LeafEntries(Current.tree) :
        nsHist.sources[e.id] = [version |-> ns.current, row |-> i, pair |-> p]}

\* a query whose filter matches the entry and whose top_k covers the
\* namespace returns it
Retrievable(e) ==
    \A filters \in Filters :
        Matches(filters, e.kvs) =>
            \A qv \in QueryVectors :
                \E r \in Range(query(Current.tree, qv, filters, RecordCount(Current.wal))) :
                    r.id = e.id

\* both copies of every record of twin rows are in the index, under two ids
TwinsInIndex ==
    (nsLast.op = "commit" /\ nsLast.ok /\ ns.status = "ready") =>
        \A ij \in TwinRows :
            \A p \in 1..Len(Current.wal[ij[1]].metadata) :
                \E e1 \in EntriesOf(ij[1], p), e2 \in EntriesOf(ij[2], p) : e1.id # e2.id

RECURSIVE Considered(_, _, _, _)
Considered(t, vector, node, filters) ==
    IF node.node_type = "Leaf"
    THEN {node.ids[i] : i \in {j \in 1..Len(node.ids) : Matches(filters, node.metadata[j])}}
    ELSE LET alpha == IF ALPHA <= 1 THEN 1 ELSE ALPHA
             best_children ==
                 collect_top_k_with_nodes(t, vector, node.vectors, node.children, filters, alpha)
         IN  UNION {Considered(t, vector, load_node(t, node.children[best_children[i].idx]),
                               filters) : i \in 1..Len(best_children)}

ResultIds(results) == {results[i].id : i \in 1..Len(results)}

\* C18: when top_k is at least the number of stored records, every entry that
\* satisfies the filter and lies in one of the alpha best non-pruned subtrees
\* at every level of its path appears in the result of search.
C18_ConsideredEntriesReturned ==
    status = "ready" =>
        \A qv \in Vector, filters \in Filters :
            Considered(tree, qv, load_node(tree, tree.root), filters)
                \subseteq ResultIds(search(tree, qv, Max2(inserted, 1), filters))

\* the same for the filters on the string key alone
StringFilters == {FEq("c", "a"), FEq("c", "b"), FIn("c", {"a", "b"})}

ConsideredReturnedForStrings ==
    status = "ready" =>
        \A qv \in Vector, filters \in StringFilters :
            Considered(tree, qv, load_node(tree, tree.root), filters)
                \subseteq ResultIds(search(tree, qv, Max2(inserted, 1), filters))

(***************************************************************************)
(* The order and the number of the results.                                *)
(***************************************************************************)
\* the queries of the searches checked for number and order: a vector equal
\* to each stored vector and one at distance 1 from both (<<1, 0>> is at the
\* same distances as <<0, 1>>), and a filter of every kind
SearchVectors == {<<0, 0>>, <<1, 1>>, <<0, 1>>}

SearchFilters ==
    { FEq("c", "a"), FIn("c", {"a", "b"}), FGt("n", 0), FLte("f", 4),
      FAnd(<<FEq("c", "a"), FLte("n", 2)>>),
      FOr(<<FEq("c", "a"), FEq("c", "b")>>) }

\* the vector stored with an id, among the entries of the leaves
StoredVector(entries, id) == (CHOOSE e \in entries : e.id = id).vector

\* the results are in order of non-decreasing distance to qv
Ascending(entries, qv, results) ==
    \A i \in 1..(Len(results) - 1) :
        hamming_distance(StoredVector(entries, results[i].id), qv)
            <= hamming_distance(StoredVector(entries, results[i + 1].id), qv)

\* C19: search(q, top_k, filter) returns at most top_k results, in order of
\* non-decreasing Hamming distance between q and the vector stored with each
\* result.  (Stated for the calls that return, top_k >= 1: with top_k = 0 a
\* leaf that holds entries evaluates top_k_values[k - 1] and the call ends
\* there.)
C19_SearchBoundedAndSorted ==
    status = "ready" =>
        LET entries == LeafEntries(tree)
        IN  \A qv \in SearchVectors, top_k \in 1..MaxTopK, filters \in SearchFilters :
                LET results == search(tree, qv, top_k, filters)
                IN  /\ Len(results) <= top_k
                    /\ Ascending(entries, qv, results)

\* a search whose candidates outnumber top_k, and a search that returns two
\* results at different distances
C19_Witness ==
    /\ status = "ready"
    /\ \E qv \in SearchVectors, filters \in SearchFilters :
          /\ Len(traverse(tree, qv, load_node(tree, tree.root), 1, filters)) > 1
          /\ LET results == search(tree, qv, 2, filters)
             IN  /\ Len(results) = 2
                 /\ hamming_distance(StoredVector(LeafEntries(tree), results[1].id), qv)
                       < hamming_distance(StoredVector(LeafEntries(tree), results[2].id), qv)

(***************************************************************************)
(* The Hamming kernel.                                                     *)
(***************************************************************************)
AllOnes  == [i \in 1..QUANTIZED_VECTOR_SIZE |-> 255]
AllZeros == [i \in 1..QUANTIZED_VECTOR_SIZE |-> 0]

\* C20: for quantized vectors a and b of B bytes, 0 <= hamming_distance(a, b)
\* <= 8B, hamming_distance(a, a) = 0, hamming_distance(a, b) =
\* hamming_distance(b, a), and the all-ones and the all-zeros vector are 8B
\* apart.
C20_HammingBounds ==
    hdD # NULL =>
        /\ 0 <= hdD
        /\ hdD <= 8 * QUANTIZED_VECTOR_SIZE
        /\ hamming_distance_u8(hdA, hdA) = 0
        /\ hdA = hdB => hdD = 0
        /\ hdD = hamming_distance_u8(hdB, hdA)
        /\ (hdA = AllOnes /\ hdB = AllZeros) => hdD = 8 * QUANTIZED_VECTOR_SIZE

\* the distance of the all-ones and the all-zeros vector has been computed
C20_Witness ==
    /\ hdD # NULL
    /\ hdA = AllOnes
    /\ hdB = AllZeros
    /\ hdD = 8 * QUANTIZED_VECTOR_SIZE

(***************************************************************************)
(* SpecKV: the key-value tree under insert and search.                     *)
(***************************************************************************)
MaxKVInserts == 5

KVInsert(key, value) ==
    /\ kvLast.n < MaxKVInserts
    /\ kv' = Tree_insert(kv, key, value)
    /\ kvHist' = [kvHist EXCEPT ![key] = SomeValue(value)]
    /\ kvLast' = [op |-> "insert", key |-> key, value |-> SomeValue(value),
                  split |-> Node_is_full(StorageManager_load_node(kv,
                               Tree_find_entrypoint(kv, kv.root_offset, key)).node),
                  n |-> kvLast.n + 1]
    /\ UNCHANGED notKV

KVSearch(key) ==
    /\ kvLast.op # "search"
    /\ kvLast' = [kvLast EXCEPT !.op = "search", !.key = key,
                                !.value = Tree_search(kv, key)]
    /\ UNCHANGED <<kv, kvHist, notKV>>

InitKV == ExtIdle /\ CoreIdle

NextKV ==
    \/ \E key \in KVKeys, value \in KVValues : KVInsert(key, value)
    \/ \E key \in KVKeys : KVSearch(key)

SpecKV == InitKV /\ [][NextKV]_vars

\* the leaves of the key-value tree, through the root
KVLeaves(s) ==
    LET root == StorageManager_load_node(s, s.root_offset).node
    IN  IF root.node_type = "Leaf" THEN <<root>>
        ELSE [i \in 1..Len(root.children) |->
                StorageManager_load_node(s, root.children[i]).node]

\* C21: after any sequence of inserts, search(k) returns the value of the
\* most recent insert of k, and None for a key that was never inserted,
\* also after leaves have split.
C21_SearchReturnsLastInsert ==
    \A k \in KVKeys : Tree_search(kv, k) = kvHist[k]

\* what does hold: a key that was never inserted is not found, and a key
\* that was inserted is found with one of the values inserted for it
KVSearchFindsInsertedKeys ==
    \A k \in KVKeys : (Tree_search(kv, k) = None) <=> (kvHist[k] = None)

(***************************************************************************)
(* SpecSM: a StorageManager used directly: nodes are stored at new         *)
(* offsets, stored again at their offsets with other content, and loaded.  *)
(***************************************************************************)
MaxSMStores == 3

\* the contents stored: leaves and an internal node of different lengths,
\* a value that was deleted (None) and a value of no bytes
SMContents ==
    { NewLeaf(0),
      [NewLeaf(0) EXCEPT !.keys = <<1>>, !.values = <<SomeValue(<<7>>)>>],
      [NewLeaf(0) EXCEPT !.keys = <<1, 2>>, !.values = <<SomeValue(<<7, 8>>), None>>],
      [NewInternal(0) EXCEPT !.keys = <<5>>, !.children = <<2, 7>>, !.is_root = TRUE],
      [NewLeaf(0) EXCEPT !.keys = <<3>>, !.values = <<SomeValue(<<>>)>>] }

SMStored == Cardinality(DOMAIN smNodes)

\* store_node of a node whose offset is 0
SMStoreNew(node) ==
    /\ smLast.n < MaxSMStores
    /\ LET r == StorageManager_store_node(sm, node)
       IN  /\ sm' = r.s
           /\ smNodes' = FcnOf((r.node.offset :> r.node) @@ smNodes)
           /\ smLast' = [op |-> "store_new", offset |-> r.node.offset, ok |-> TRUE,
                         node |-> r.node, fresh |-> smNodes = <<>>,
                         above |-> \A o \in DOMAIN smNodes : o < r.node.offset,
                         n |-> smLast.n + 1]
    /\ UNCHANGED notSM

\* store_node of a node that was stored or loaded before, with other content
SMStoreAgain(offset, node) ==
    /\ smLast.n < MaxSMStores
    /\ offset \in DOMAIN smNodes
    /\ LET r == StorageManager_store_node(sm, [node EXCEPT !.offset = offset])
       IN  /\ sm' = r.s
           /\ smNodes' = FcnOf((offset :> r.node) @@ smNodes)
           /\ smLast' = [op |-> "store_again", offset |-> r.node.offset, ok |-> TRUE,
                         node |-> r.node, fresh |-> FALSE, above |-> TRUE,
                         n |-> smLast.n + 1]
    /\ UNCHANGED notSM

SMLoad(offset) ==
    /\ smLast.op # "load"
    /\ offset \in DOMAIN smNodes
    /\ LET l == StorageManager_load_node(sm, offset)
       IN  smLast' = [smLast EXCEPT !.op = "load", !.offset = offset, !.ok = l.ok,
                                    !.node = l.node, !.fresh = FALSE]
    /\ UNCHANGED <<sm, smNodes, notSM>>

InitSM == ExtIdle /\ CoreIdle

\* the offsets a node can be at
SMOffsets == {HEADER_SIZE + i * BLOCK_SIZE : i \in 0..(MaxSMStores * 8)}

NextSM ==
    \/ \E node \in SMContents : SMStoreNew(node)
    \/ \E offset \in SMOffsets, node \in SMContents : SMStoreAgain(offset, node)
    \/ \E offset \in SMOffsets : SMLoad(offset)

SpecSM == InitSM /\ [][NextSM]_vars

\* a loaded node has the keys, values and children of a stored one
SameContent(loaded, stored) ==
    /\ loaded.keys = stored.keys
    /\ loaded.values = stored.values
    /\ loaded.children = stored.children

\* C22: load_node(store_node(n)) returns n's keys, values and children for
\* every stored node, whatever was stored before or after it and also after
\* n was stored again at its offset with larger or smaller content; the
\* first node of a fresh store is at HEADER_SIZE, and every newly stored
\* node at a strictly larger offset than the nodes stored before it.
C22_LoadReturnsStoredNode ==
    /\ \A offset \in DOMAIN smNodes :
          LET l == StorageManager_load_node(sm, offset)
          IN  l.ok /\ SameContent(l.node, smNodes[offset])
    /\ smLast.op = "store_new" =>
          /\ smLast.fresh => smLast.offset = HEADER_SIZE
          /\ smLast.above

\* what does hold: the offsets, and the content of every node none of whose
\* values is a value of no bytes
SMRoundTripOfNonEmptyValues ==
    /\ \A offset \in DOMAIN smNodes :
          LET l == StorageManager_load_node(sm, offset)
          IN  /\ l.ok
              /\ (\A i \in DOMAIN smNodes[offset].values :
                     smNodes[offset].values[i] # SomeValue(<<>>))
                  => SameContent(l.node, smNodes[offset])
    /\ smLast.op = "store_new" =>
          /\ smLast.fresh => smLast.offset = HEADER_SIZE
          /\ smLast.above

(***************************************************************************)
(* SpecCI: compress_indices and decompress_indices on an ascending list.   *)
(***************************************************************************)
MaxIndex == 4

MaxIndices == 3

\* the ascending lists of at most MaxIndices indices
AscendingLists ==
    UNION { {xs \in [1..n -> 0..MaxIndex] : \A i \in 1..(n - 1) : xs[i] <= xs[i + 1]}
            : n \in 0..MaxIndices }

InitCI ==
    /\ ciIn \in AscendingLists
    /\ ciMid = None
    /\ ciOut = None
    /\ KVIdle /\ SMIdle /\ CTIdle /\ KPIdle /\ CoreIdle

CompressIndices ==
    /\ ciMid = None
    /\ ciMid' = <<compress_indices(ciIn)>>
    /\ UNCHANGED <<ciIn, ciOut, notCI>>

DecompressIndices ==
    /\ ciMid # None
    /\ ciOut = None
    /\ ciOut' = <<SeqOf(decompress_indices(ciMid[1]))>>
    /\ UNCHANGED <<ciIn, ciMid, notCI>>

NextCI == CompressIndices \/ DecompressIndices

SpecCI == InitCI /\ [][NextCI]_vars

\* C23: decompress_indices(compress_indices(xs)) = xs for every ascending
\* list xs.
C23_DecompressInvertsCompress ==
    ciOut # None => ciOut[1] = ciIn

\* what does hold: a list that is one run of consecutive indices, or empty,
\* comes back; and reading every pair would give back every list
OneRunComesBack ==
    /\ (ciOut # None /\ Len(ciMid[1]) <= 2) => ciOut[1] = ciIn
    /\ ciMid # None => SeqOf(decompress_every_pair(ciMid[1])) = ciIn

(***************************************************************************)
(* SpecCT: the server (main.rs) on one namespace.  Every request handler   *)
(* first runs ensure_namespace_initialized, which under the                *)
(* ACTIVE_NAMESPACES mutex spawns the periodic commit task when the map    *)
(* has no handle for the namespace; an ingest request then appends a row   *)
(* to the WAL.  The commit task runs CommitService::commit on every tick:  *)
(* fetch the uncommitted rows, insert their records, mark them committed   *)
(* one hash at a time.  A commit that returns Err panics the task          *)
(* (.expect), and the process can stop at any step; the WAL and the index  *)
(* are on disk.  The index is the set of rows whose records it holds.      *)
(***************************************************************************)
MaxCtRows == 2

MaxCtStops == 1

MaxCtTime == 2

\* the bodies of the ingest requests: one vector and its metadata
CtInputs ==
    { [vectors |-> <<FloatA>>, kvs |-> <<MetaA>>],
      [vectors |-> <<FloatB>>, kvs |-> <<MetaB>>] }

\* Mutex::lock succeeds when nobody holds the mutex
TryLockAnyway(holder) == TRUE

TryLock(holder) == holder = 0

WaitingTask == [pc |-> "waiting", commits |-> <<>>, k |-> 0, rows |-> 0]

Committing(task) == task.pc \in {"fetched", "marking"}

\* ensure_namespace_initialized: active_namespaces.lock()
HLock(h) ==
    /\ ctHandlers[h].pc = "idle"
    /\ TryLock(ctMutex)
    /\ ctMutex' = h
    /\ ctHandlers' = [ctHandlers EXCEPT ![h].pc = "locked"]
    /\ UNCHANGED <<ctWal, ctIndex, ctNow, ctActive, ctTasks, ctHist, notCT>>

\* ensure_namespace_initialized: !namespaces.contains_key(namespace_id)
HCheck(h) ==
    /\ ctHandlers[h].pc = "locked"
    /\ ctHandlers' = [ctHandlers EXCEPT ![h] = [pc |-> "checked", absent |-> ~ctActive]]
    /\ UNCHANGED <<ctWal, ctIndex, ctNow, ctMutex, ctActive, ctTasks, ctHist, notCT>>

\* ensure_namespace_initialized: tokio::spawn and namespaces.insert when the
\* key was absent; the guard is dropped on return
HSpawn(h) ==
    /\ ctHandlers[h].pc = "checked"
    /\ IF ctHandlers[h].absent
       THEN /\ ctTasks' = Append(ctTasks, WaitingTask)
            /\ ctActive' = TRUE
       ELSE UNCHANGED <<ctTasks, ctActive>>
    /\ ctMutex' = 0
    /\ ctHandlers' = [ctHandlers EXCEPT ![h] = [pc |-> "ensured", absent |-> FALSE]]
    /\ UNCHANGED <<ctWal, ctIndex, ctNow, ctHist, notCT>>

\* add_vector_route: commit_service.add_to_wal(vec![vec], vec![metadata])
HAdd(h, vectors, kvs) ==
    /\ ctHandlers[h].pc = "ensured"
    /\ Len(ctWal) < MaxCtRows
    /\ ctWal' = add_to_wal(ctWal, vectors, kvs, ctNow)
    /\ ctHandlers' = [ctHandlers EXCEPT ![h] = IdleHandler]
    /\ ctHist' = [ctHist EXCEPT !.overlapped =
                     @ \/ \E t \in DOMAIN ctTasks : Committing(ctTasks[t])]
    /\ UNCHANGED <<ctIndex, ctNow, ctMutex, ctActive, ctTasks, notCT>>

\* a request that appends nothing (a query) returns
HReturn(h) ==
    /\ ctHandlers[h].pc = "ensured"
    /\ ctHandlers' = [ctHandlers EXCEPT ![h] = IdleHandler]
    /\ UNCHANGED <<ctWal, ctIndex, ctNow, ctMutex, ctActive, ctTasks, ctHist, notCT>>

\* commit, after interval.tick(): get_uncommitted; nothing fetched is Ok
TFetch(t) ==
    /\ t \in DOMAIN ctTasks
    /\ ctTasks[t].pc = "waiting"
    /\ LET commits == get_uncommitted(ctWal, CommitWindow, ctNow)
       IN  /\ commits # <<>>
           /\ ctTasks' = [ctTasks EXCEPT ![t] = [pc |-> "fetched", commits |-> commits,
                                                 k |-> 0, rows |-> Len(ctWal)]]
    /\ UNCHANGED <<ctWal, ctIndex, ctNow, ctMutex, ctActive, ctHandlers, ctHist, notCT>>

\* commit: the merged lists are checked and the records of every fetched
\* row are inserted into the index
TInsert(t) ==
    /\ t \in DOMAIN ctTasks
    /\ ctTasks[t].pc = "fetched"
    /\ LET commits == ctTasks[t].commits
           merged  == merged_commits(commits)
       IN  IF Len(merged.vectors) # Len(merged.kvs)
           THEN /\ ctTasks' = [ctTasks EXCEPT ![t].pc = "dead"]
                /\ ctHist' = [ctHist EXCEPT !.failed = TRUE]
                /\ UNCHANGED ctIndex
           ELSE /\ ctIndex' = ctIndex \cup {commits[c].rowid : c \in 1..Len(commits)}
                /\ ctTasks' = [ctTasks EXCEPT ![t].pc = "marking", ![t].k = 1]
                /\ UNCHANGED ctHist
    /\ UNCHANGED <<ctWal, ctNow, ctMutex, ctActive, ctHandlers, notCT>>

\* commit: mark_commit_finished(commit.hash) of the next fetched row; after
\* the last one commit returns Ok and the task waits for the next tick
TMark(t) ==
    /\ t \in DOMAIN ctTasks
    /\ ctTasks[t].pc = "marking"
    /\ LET task    == ctTasks[t]
           commit  == task.commits[task.k]
           fetched == {task.commits[c].rowid : c \in 1..Len(task.commits)}
           stolen  == {[id |-> ctWal[i].id, during |-> ctWal[i].id > task.rows] :
                         i \in {j \in 1..Len(ctWal) :
                                  /\ ctWal[j].hash = commit.hash
                                  /\ ctWal[j].committed_timestamp = NULL
                                  /\ ctWal[j].id \notin fetched}}
       IN  /\ ctWal' = mark_commit_finished(ctWal, commit.hash, ctNow)
           /\ ctHist' = [ctHist EXCEPT !.stolen = @ \cup stolen]
           /\ ctTasks' = [ctTasks EXCEPT ![t] =
                             IF task.k = Len(task.commits) THEN WaitingTask
                             ELSE [task EXCEPT !.k = @ + 1]]
    /\ UNCHANGED <<ctIndex, ctNow, ctMutex, ctActive, ctHandlers, notCT>>

\* commit returns Err from a step (the WAL or the index files fail):
\* .expect("Failed to commit") panics the task, its handle stays in the map
TFail(t) ==
    /\ t \in DOMAIN ctTasks
    /\ Committing(ctTasks[t])
    /\ ctTasks' = [ctTasks EXCEPT ![t].pc = "dead"]
    /\ ctHist' = [ctHist EXCEPT !.failed = TRUE]
    /\ UNCHANGED <<ctWal, ctIndex, ctNow, ctMutex, ctActive, ctHandlers, notCT>>

\* the process stops and is started again: the tasks, the handlers and the
\* map are gone, the WAL and the index are as they were
Stop ==
    /\ ctHist.stops < MaxCtStops
    /\ ctTasks' = <<>>
    /\ ctHandlers' = [h \in 1..NumHandlers |-> IdleHandler]
    /\ ctMutex' = 0
    /\ ctActive' = FALSE
    /\ ctHist' = [ctHist EXCEPT !.stops = @ + 1]
    /\ UNCHANGED <<ctWal, ctIndex, ctNow, notCT>>

\* a commit window of time passes; a task that is alive ticks every ten
\* seconds, so this much time passes only while no task is alive
Elapse ==
    /\ ctNow < MaxCtTime
    /\ \A t \in DOMAIN ctTasks : ctTasks[t].pc = "dead"
    /\ ctNow' = ctNow + 1
    /\ UNCHANGED <<ctWal, ctIndex, ctMutex, ctActive, ctHandlers, ctTasks, ctHist, notCT>>

InitCT == ExtIdle /\ CoreIdle

Handlers == 1..NumHandlers

\* the steps of the server while the process runs
Running ==
    \/ \E h \in Handlers : HLock(h) \/ HCheck(h) \/ HSpawn(h) \/ HReturn(h)
    \/ \E h \in Handlers, in \in CtInputs : HAdd(h, in.vectors, in.kvs)
    \/ \E t \in 1..NumHandlers : TFetch(t) \/ TInsert(t) \/ TMark(t) \/ TFail(t)

NextCT == Running \/ Stop \/ Elapse

SpecCT == InitCT /\ [][NextCT]_vars

\* the rows of the WAL that are marked committed, and those get_uncommitted
\* returns now
CtCommitted == {i \in 1..Len(ctWal) : ctWal[i].committed_timestamp # NULL}

CtPending ==
    LET commits == get_uncommitted(ctWal, CommitWindow, ctNow)
    IN  {commits[c].rowid : c \in 1..Len(commits)}

\* C24: under any interleaving of ingest requests with a running commit,
\* every WAL row whose committed timestamp is set has had its records
\* inserted into the index: a row appended while a commit is in progress
\* is marked by that commit only if that commit fetched it.
C24_CommittedRowsAreIndexed ==
    /\ \A i \in CtCommitted : ctWal[i].id \in ctIndex
    /\ \A x \in ctHist.stolen : ~x.during

\* what does hold: rows of different contents are marked only after their
\* records went into the index
DistinctRowsMarkedAfterInsert ==
    (\A i, j \in 1..Len(ctWal) : ctWal[i].hash = ctWal[j].hash => i = j)
        => /\ \A i \in CtCommitted : ctWal[i].id \in ctIndex
           /\ ctHist.stolen = {}

\* C25: within a commit with no concurrent append, a row is marked only
\* after the records of every fetched row are in the index; so whenever
\* commit fails or the process stops, every row whose records are not in
\* the index has no committed timestamp and is returned by the next
\* get_uncommitted.
C25_UnindexedRowsStayEligible ==
    ~ctHist.overlapped =>
        /\ \A t \in DOMAIN ctTasks :
              ctTasks[t].pc = "marking" =>
                  \A c \in 1..Len(ctTasks[t].commits) :
                      ctTasks[t].commits[c].rowid \in ctIndex
        /\ \A i \in 1..Len(ctWal) :
              ctWal[i].id \notin ctIndex =>
                  /\ ctWal[i].committed_timestamp = NULL
                  /\ ctWal[i].id \in CtPending

\* what does hold: the same as long as less than a commit window of time
\* has passed
EligibleWithinTheWindow ==
    (~ctHist.overlapped /\ ctNow = 0) =>
        /\ \A t \in DOMAIN ctTasks :
              ctTasks[t].pc = "marking" =>
                  \A c \in 1..Len(ctTasks[t].commits) :
                      ctTasks[t].commits[c].rowid \in ctIndex
        /\ \A i \in 1..Len(ctWal) :
              ctWal[i].id \notin ctIndex =>
                  /\ ctWal[i].committed_timestamp = NULL
                  /\ ctWal[i].id \in CtPending

\* C27: at most one commit task is spawned for the namespace in a run of
\* the server, under any interleaving of its requests, so that two runs of
\* commit never overlap.
C27_OneCommitTask ==
    /\ Len(ctTasks) <= 1
    /\ Cardinality({t \in DOMAIN ctTasks : Committing(ctTasks[t])}) <= 1

\* two requests have both gone through ensure_namespace_initialized while
\* the one task is in a commit
C27_Witness ==
    /\ \A h \in Handlers : ctHandlers[h].pc = "ensured"
    /\ Len(ctTasks) = 1
    /\ Committing(ctTasks[1])

(***************************************************************************)
(* SpecCTLive: the server while the process keeps running and less than a  *)
(* commit window of time passes.  The runtime schedules the commit task    *)
(* (its tick, and the steps of commit) and every handler that can go on.   *)
(***************************************************************************)
TaskStep == \E t \in 1..NumHandlers : TFetch(t) \/ TInsert(t) \/ TMark(t)

HandlerStep == \E h \in Handlers : HLock(h) \/ HCheck(h) \/ HSpawn(h) \/ HReturn(h)

SpecCTLive ==
    InitCT /\ [][Running]_vars /\ WF_vars(TaskStep) /\ WF_vars(HandlerStep)

\* C26: rows left unmarked are retried on the next tick of the commit task:
\* after a failed commit a later tick processes them, so every row appended
\* is eventually marked committed.
C26_AppendedEventuallyCommitted ==
    \A i \in 1..MaxCtRows :
        (Len(ctWal) >= i) ~> (Len(ctWal) >= i /\ ctWal[i].committed_timestamp # NULL)

\* what does hold: every row appended is eventually marked committed unless
\* a commit has failed
CommittedUnlessCommitFailed ==
    \A i \in 1..MaxCtRows :
        (Len(ctWal) >= i) ~>
            (ctHist.failed \/ (Len(ctWal) >= i /\ ctWal[i].committed_timestamp # NULL))


(***************************************************************************)
(* And and Or in should_prune, on the summaries of the reachable nodes.    *)
(***************************************************************************)
\* the filters under an And or an Or: one on each kind of value
SubFilters == {FEq("c", "a"), FEq("c", "b"), FLte("n", 2), FGt("f", 6)}

\* the lists of one or two of them
SubFilterLists ==
    {<<f>> : f \in SubFilters} \cup {<<f, g>> : f \in SubFilters, g \in SubFilters}

\* C28: should_prune(And(fs), summary) is true exactly when should_prune is
\* true for at least one filter of fs, and should_prune(Or(fs), summary) is
\* true exactly when it is true for every filter of fs; checked on the
\* summary of every node reachable from the root.
C28_AndAnyOrEvery ==
    \A o \in Reachable(tree), fs \in SubFilterLists :
        LET summary == load_node(tree, o).node_metadata
        IN  /\ should_prune(FAnd(fs), summary)
                <=> \E i \in 1..Len(fs) : should_prune(fs[i], summary)
            /\ should_prune(FOr(fs), summary)
                <=> \A i \in 1..Len(fs) : should_prune(fs[i], summary)

\* for a list of one filter, And and Or prune exactly when the filter does
OneFilterListsPruneAlike ==
    \A o \in Reachable(tree), f \in SubFilters :
        LET summary == load_node(tree, o).node_metadata
        IN  /\ should_prune(FAnd(<<f>>), summary) <=> should_prune(f, summary)
            /\ should_prune(FOr(<<f>>), summary) <=> should_prune(f, summary)

(***************************************************************************)
(* The clusters of a split.                                                *)
(***************************************************************************)
\* the number of positions of s that hold x
Occurrences(s, x) == Cardinality({i \in 1..Len(s) : s[i] = x})

\* clusters is a partition of the indices 1..n into non-empty clusters
IsPartition(clusters, n) ==
    /\ \A c \in 1..Len(clusters) : clusters[c] # <<>>
    /\ \A i \in 1..n :
          SeqSum(SeqOf([c \in 1..Len(clusters) |-> Occurrences(clusters[c], i)])) = 1

\* an insert that has split the full leaf it entered, and returned
InsertSplitLeaf ==
    /\ inserted' = inserted + 1
    /\ status' = "ready"
    /\ lastOp'.was_full

\* C29: balanced_k_modes_k_clusters(S, 2), as Node::split calls it, returns
\* a partition of the indices of S: no cluster is empty and every index is
\* in exactly one cluster; so after the split of a full leaf every entry
\* of the leaf is in exactly one of the leaf and its sibling.
C29_SplitPartitions ==
    [][InsertSplitLeaf =>
        LET before  == tree.nodes[lastOp'.entrypoint]
            node    == tree'.nodes[lastOp'.entrypoint]
            sibling == tree'.nodes[lastOp'.sibling_offset]
        IN  /\ \A clusters \in Clusterings(before.vectors) :
                  IsPartition(clusters, Len(before.vectors))
            /\ \A id \in Range(before.ids) :
                  Occurrences(node.ids, id) + Occurrences(sibling.ids, id)
                      = Occurrences(before.ids, id)]_vars

\* what the clusters do satisfy: no cluster is empty and every index is in
\* at least one cluster, so every entry of the split leaf is in the leaf or
\* in its sibling
SplitCoversTheLeaf ==
    [][InsertSplitLeaf =>
        LET before  == tree.nodes[lastOp'.entrypoint]
            node    == tree'.nodes[lastOp'.entrypoint]
            sibling == tree'.nodes[lastOp'.sibling_offset]
        IN  /\ \A clusters \in Clusterings(before.vectors) :
                  /\ \A c \in 1..Len(clusters) : clusters[c] # <<>>
                  /\ \A i \in 1..Len(before.vectors) :
                        \E c \in 1..Len(clusters) : Occurrences(clusters[c], i) >= 1
            /\ \A id \in Range(before.ids) :
                  Occurrences(node.ids, id) + Occurrences(sibling.ids, id)
                      >= Occurrences(before.ids, id)]_vars


(***************************************************************************)
(* The references to a node from the children lists.                       *)
(***************************************************************************)
\* the slots (parent, position) of reachable internal nodes that hold o
ParentSlots(t, o) ==
    {s \in UNION {{<<p, i>> : i \in 1..Len(t.nodes[p].children)} :
                     p \in {x \in Reachable(t) : t.nodes[x].node_type = "Internal"}} :
        t.nodes[s[1]].children[s[2]] = o}

\* C30: after any sequence of inserts no block id occurs twice among the
\* children lists of the internal nodes reachable from the root, and
\* collect_leaf_nodes from the root visits every reachable leaf exactly once.
C30_NoChildTwice ==
    (status = "ready" /\ calibrated = 0) =>
        /\ \A o \in 1..Len(tree.nodes) : Cardinality(ParentSlots(tree, o)) <= 1
        /\ \A l \in ReachableLeaves(tree) :
              Occurrences(collect_leaf_nodes(tree, tree.root), l) = 1

\* collect_leaf_nodes visits every reachable leaf at least once, and only
\* reachable leaves
EveryLeafCollected ==
    status = "ready" =>
        Range(collect_leaf_nodes(tree, tree.root)) = ReachableLeaves(tree)


(***************************************************************************)
(* The arity of the internal nodes.                                        *)
(***************************************************************************)
\* an internal node has as many vectors as children, and at least one
ArityOk(node) ==
    node.node_type = "Internal" =>
        /\ Len(node.vectors) = Len(node.children)
        /\ Len(node.children) >= 1

DistinctIds(results) ==
    \A i, j \in 1..Len(results) : i # j => results[i].id # results[j].id

\* C32: the list a query returns contains no two results with the same
\* record id.
C32_NoResultTwice ==
    status = "ready" =>
        \A qv \in SearchVectors, top_k \in 1..MaxTopK, filters \in SearchFilters :
            DistinctIds(search(tree, qv, top_k, filters))

\* the ids of the entries of the leaves collect_leaf_nodes visits, one per
\* visit and entry
CollectedIds(t) ==
    Concat(SeqOf([i \in 1..Len(collect_leaf_nodes(t, t.root)) |->
                    t.nodes[collect_leaf_nodes(t, t.root)[i]].ids]))

\* when no id is met twice on the way down from the root, no result is
\* returned twice
DistinctEntriesGiveDistinctResults ==
    (status = "ready" /\ \A id \in 1..inserted : Occurrences(CollectedIds(tree), id) <= 1) =>
        \A qv \in SearchVectors, top_k \in 1..MaxTopK, filters \in SearchFilters :
            DistinctIds(search(tree, qv, top_k, filters))


(***************************************************************************)
(* The WAL of the version a recovery creates.                              *)
(***************************************************************************)
\* a step of recover_point_in_time that has replayed rows and returned Ok
RecoveryReplayed ==
    /\ Cardinality(DOMAIN ns'.versions) > Cardinality(DOMAIN ns.versions)
    /\ nsLast'.op = "recover_point_in_time"
    /\ nsLast'.ok
    /\ ns'.status = "ready"
    /\ get_commits_before(Current.wal, nsLast'.timestamp) # <<>>

\* C33: after recover_point_in_time(ts) completes, the WAL of the fresh
\* version holds, for every row of the source WAL that was replayed, a row
\* of that entry with its committed timestamp set.
C33_FreshWalRecordsReplayed ==
    [][RecoveryReplayed =>
        LET fresh == ns'.versions[nsLast'.created].wal
            commits == get_commits_before(Current.wal, nsLast'.timestamp)
        IN  \A c \in 1..Len(commits) :
                \E i \in 1..Len(fresh) :
                    /\ fresh[i].hash = commits[c].hash
                    /\ fresh[i].committed_timestamp # NULL]_vars

\* what the recovery leaves: the WAL of the fresh version has no row, and
\* the rows of the source WAL are as they were
FreshWalHasNoRow ==
    [][RecoveryReplayed =>
        /\ ns'.versions[nsLast'.created].wal = <<>>
        /\ ns'.versions[ns.current].wal = Current.wal]_vars


(***************************************************************************)
(* The page chains of the block store.                                     *)
(***************************************************************************)
\* the pages met from page id along next_block_offset, at most n of them
RECURSIVE PagesFrom(_, _, _)
PagesFrom(s, id, n) ==
    IF id = 0 \/ n = 0 THEN <<>>
    ELSE <<id>> \o PagesFrom(s, Block(s, id).next_block_offset, n - 1)

\* the chain of record id
PageChain(s, id) == PagesFrom(s, id, used_blocks(s))

PagesRequired(serialized) == (Len(serialized) + BLOCK_DATA_SIZE - 1) \div BLOCK_DATA_SIZE

\* a step store(serialized, index) on an existing record whose chain has
\* more pages than serialized needs
RewriteWithFewerPages ==
    /\ bsStores' = bsStores + 1
    /\ bsLast'.index # 0
    /\ PagesRequired(bsLast'.payload) < Len(PageChain(bs, bsLast'.index))

\* the pages of the chain before the step that the new payload does not need
ExcessPages ==
    LET chain == PageChain(bs, bsLast'.index)
    IN  {chain[i] : i \in (PagesRequired(bsLast'.payload) + 1)..Len(chain)}

\* C34: when store(bytes, id) rewrites a record with a payload that needs
\* fewer pages than the record's chain has, every page of the chain beyond
\* the new last page is zero-filled and no page of the new chain links to it.
C34_ExcessPagesCleared ==
    [][RewriteWithFewerPages =>
        \A p \in ExcessPages :
            /\ Block(bs', p) = ZeroBlock
            /\ \A q \in Range(PageChain(bs', bsLast'.index)) :
                  Block(bs', q).next_block_offset # p]_vars

\* the excess pages are detached: no page of the new chain links to them
ExcessPagesDetached ==
    [][RewriteWithFewerPages =>
        \A p \in ExcessPages :
            \A q \in Range(PageChain(bs', bsLast'.index)) :
                Block(bs', q).next_block_offset # p]_vars


(***************************************************************************)
(* The errors of load.                                                     *)
(***************************************************************************)
\* the chain from page id does not hold a record: its first page is not a
\* primary page, or it has not the number of pages that the length in the
\* header of its first page needs
CorruptChain(s, id) ==
    \/ ~Block(s, id).is_primary
    \/ Len(PageChain(s, id)) # (Block(s, id).serialized_node_length + BLOCK_DATA_SIZE - 1)
                                  \div BLOCK_DATA_SIZE

\* C35: load(id) returns an error, and no bytes, when the length gathered
\* along the chain does not match the record length in the header of the
\* primary page, and when it starts on a page that is not a primary page.
C35_LoadRejectsCorruptChains ==
    (bsLast.op = "load" /\ CorruptChain(bs, bsLast.id)) =>
        /\ ~bsLast.ok
        /\ bsLast.bytes = <<>>

\* the one test load makes: it fails exactly when the data areas of the
\* pages it went through are shorter than the length in the header of the
\* last page, and then it returns no bytes
LoadRejectsShortChains ==
    bsLast.op = "load" =>
        LET chain == PageChain(bs, bsLast.id)
            last  == Block(bs, chain[Len(chain)])
        IN  /\ ~bsLast.ok <=> Len(chain) * BLOCK_DATA_SIZE < last.serialized_node_length
            /\ ~bsLast.ok => bsLast.bytes = <<>>


(***************************************************************************)
(* Node::serialize and Node::deserialize (ann_tree/node.rs).  The bytes    *)
(* are a sequence of fields: one element per integer written, VecBits      *)
(* elements per vector.  The KV list of an entry and the summary are       *)
(* LazyValues: what is written is the offset of the record that holds      *)
(* them, for which the value itself stands here.                           *)
(***************************************************************************)
serialize_node_type(node_type) == IF node_type = "Leaf" THEN 0 ELSE 1

deserialize_node_type(byte) == IF byte = 0 THEN "Leaf" ELSE "Internal"

\* Node::serialize of the node stored at offset
Node_serialize(node, offset) ==
    <<serialize_node_type(node.node_type), IF node.is_root THEN 1 ELSE 0,
      node.parent_offset, offset>>
        \o <<Len(node.vectors)>> \o Concat(node.vectors)
        \o <<Len(node.ids)>> \o node.ids
        \o <<Len(node.children)>> \o node.children
        \o <<Len(node.metadata)>> \o node.metadata
        \o <<node.node_metadata>>

\* Node::deserialize: the fields are read in the order they were written;
\* a parent offset of 0 is read as None
Node_deserialize(data) ==
    LET vectors_len  == data[5]
        ids_at       == 6 + vectors_len * VecBits
        ids_len      == data[ids_at]
        children_at  == ids_at + 1 + ids_len
        children_len == data[children_at]
        metadata_at  == children_at + 1 + children_len
        metadata_len == data[metadata_at]
    IN  [offset |-> data[4],
         node   |-> [node_type     |-> deserialize_node_type(data[1]),
                     is_root       |-> data[2] = 1,
                     parent_offset |-> data[3],
                     vectors       |-> SeqOf([i \in 1..vectors_len |->
                                          SubSeq(data, 6 + (i - 1) * VecBits, 5 + i * VecBits)]),
                     ids           |-> SubSeq(data, ids_at + 1, ids_at + ids_len),
                     children      |-> SubSeq(data, children_at + 1, children_at + children_len),
                     metadata      |-> SubSeq(data, metadata_at + 1, metadata_at + metadata_len),
                     node_metadata |-> data[metadata_at + metadata_len + 1]]]

\* C36: for every stored node n, Node::deserialize(Node::serialize(n)) is n
\* in every field; and the summary of n comes back from serialize then
\* deserialize of the NodeMetadataIndex with every key's string set and
\* present ranges unchanged and every absent range still absent.
C36_SerializationRoundTrips ==
    \A o \in 1..Len(tree.nodes) :
        /\ Node_deserialize(Node_serialize(tree.nodes[o], o)).node = tree.nodes[o]
        /\ NodeMetadataIndexRoundTrip(tree.nodes[o].node_metadata)
              = tree.nodes[o].node_metadata

\* the part that holds: the node comes back in every field, and its offset
\* too; the summary comes back with its keys, string sets and present
\* ranges
NodeFieldsRoundTrip ==
    \A o \in 1..Len(tree.nodes) :
        LET node   == tree.nodes[o]
            back   == Node_deserialize(Node_serialize(node, o))
            index  == node.node_metadata
            index2 == NodeMetadataIndexRoundTrip(index)
        IN  /\ back.node = node
            /\ back.offset = o
            /\ DOMAIN index2 = DOMAIN index
            /\ \A k \in DOMAIN index :
                  /\ index2[k].values = index[k].values
                  /\ index[k].int_range # None => index2[k].int_range = index[k].int_range
                  /\ index[k].float_range # None => index2[k].float_range = index[k].float_range


(***************************************************************************)
(* Search with top_k = 0                                                   *)
(***************************************************************************)

\* collect_top_k_with_filters, the loop over the sorted distances: its first
\* test reads top_k_values[k - 1] as soon as top_k_values.len() >= k.  For
\* k >= 1 the list then holds k items and the read is in range; for k = 0 the
\* test is reached on the first item with an empty list, and k - 1 is taken
\* in usize: an overflow panic in a debug build, an index out of bounds
\* (usize::MAX) in a release build
CollectPanics(distances, k) == k = 0 /\ distances # <<>>

\* ANNTree::traverse as far as a panic goes: a leaf panics as its collection
\* does; an internal node collects its alpha >= 1 best children, which does
\* not panic, and panics when the traversal of one of them does
RECURSIVE traverse_panics(_, _, _, _, _)
traverse_panics(t, vector, node, k, filters) ==
    IF node.node_type = "Leaf"
    THEN CollectPanics(Distances(vector, node.vectors), k)
    ELSE LET alpha == IF ALPHA <= 1 THEN 1 ELSE ALPHA
             best_children ==
                 collect_top_k_with_nodes(t, vector, node.vectors, node.children, filters, alpha)
         IN  \E i \in 1..Len(best_children) :
                 traverse_panics(t, vector,
                                 load_node(t, node.children[best_children[i].idx]),
                                 k, filters)

\* ANNTree::search panics when the traversal from the root does
search_panics(t, vector, top_k, filters) ==
    traverse_panics(t, vector, load_node(t, t.root), top_k, filters)

\* C38: ANNTree::search with top_k = 0 does not panic and returns an empty
\* result, whatever the tree contains
C38_TopKZeroReturnsEmpty ==
    status = "ready" =>
        \A qv \in SearchVectors, filters \in SearchFilters :
            /\ ~search_panics(tree, qv, 0, filters)
            /\ search(tree, qv, 0, filters) = <<>>

\* what the code gives: with top_k = 0 the search panics when the traversal
\* comes to a leaf that holds an entry, which takes a stored entry, and
\* returns an empty result otherwise
TopKZeroPanicsOnALeafWithEntries ==
    status = "ready" =>
        \A qv \in SearchVectors, filters \in SearchFilters :
            IF search_panics(tree, qv, 0, filters)
            THEN \E o \in DOMAIN tree.nodes :
                     /\ load_node(tree, o).node_type = "Leaf"
                     /\ load_node(tree, o).vectors # <<>>
            ELSE search(tree, qv, 0, filters) = <<>>

(***************************************************************************)
(* Folding KV pairs into a node summary                                    *)
(***************************************************************************)

\* keys and values of the pairs folded: strings, integers and floats under
\* the same keys
KPKeys == {"c", "n"}

KPValues ==
    {StringValue("a"), StringValue("b"),
     IntegerValue(1), IntegerValue(2), FloatValue(1), FloatValue(3)}

KPPairs == {KVPair(k, v) : k \in KPKeys, v \in KPValues}

\* NodeMetadataIndex::insert_kv_pair, the Integer and the Float branch for
\* a key that is present: node_metadata.int_range.unwrap() and
\* node_metadata.float_range.unwrap() panic on None
insert_kv_pair_panics(index, pair) ==
    /\ pair.key \in DOMAIN index
    /\ \/ pair.value.t = "Integer" /\ index[pair.key].int_range = None
       \/ pair.value.t = "Float" /\ index[pair.key].float_range = None

\* the summary of one pair: the pair folded into an empty summary
SummaryOfPair(pair) == insert_kv_pair(NodeMetadataIndex, pair)

\* Node::split starts the summary of a cluster: NodeMetadataIndex::new()
KPNew ==
    /\ kpIndex' = NodeMetadataIndex
    /\ kpLast' = KPNoOp
    /\ UNCHANGED notKP

\* node_metadata.insert_kv_pair(&pair), one pair of one entry of the
\* cluster.  A panic unwinds the call: the summary is left as it was and no
\* further pair is folded into it.
KPInsertKvPair(pair) ==
    /\ ~kpLast.panicked
    /\ IF insert_kv_pair_panics(kpIndex, pair)
       THEN /\ kpIndex' = kpIndex
            /\ kpLast' = [op |-> "insert_kv_pair", kv |-> pair,
                          before |-> kpIndex, panicked |-> TRUE]
       ELSE /\ kpIndex' = insert_kv_pair(kpIndex, pair)
            /\ kpLast' = [op |-> "insert_kv_pair", kv |-> pair,
                          before |-> kpIndex, panicked |-> FALSE]
    /\ UNCHANGED notKP

InitKP == ExtIdle /\ CoreIdle

NextKP ==
    \/ KPNew
    \/ \E pair \in KPPairs : KPInsertKvPair(pair)

SpecKP == InitKP /\ [][NextKP]_vars

\* C37: insert_kv_pair never fails, whatever the summary and the pair (an
\* Integer or a Float under a key that holds only strings or only the other
\* kind of number included), and its result is the summary combined with
\* the summary of the pair
C37_FoldNeverFails ==
    kpLast.op = "insert_kv_pair" =>
        /\ ~kpLast.panicked
        /\ kpIndex = combine_filters(<<kpLast.before, SummaryOfPair(kpLast.kv)>>)

\* what the code gives: the fold panics exactly for a number under a key
\* that is present without a range of that kind, and gives the combined
\* summary in every other case
FoldFailsOnAMissingRange ==
    kpLast.op = "insert_kv_pair" =>
        LET pair == kpLast.kv
            missing ==
                /\ pair.key \in DOMAIN kpLast.before
                /\ \/ pair.value.t = "Integer" /\ kpLast.before[pair.key].int_range = None
                   \/ pair.value.t = "Float" /\ kpLast.before[pair.key].float_range = None
        IN  IF missing
            THEN kpLast.panicked /\ kpIndex = kpLast.before
            ELSE /\ ~kpLast.panicked
                 /\ kpIndex = combine_filters(<<kpLast.before, SummaryOfPair(pair)>>)

(***************************************************************************)
(* SpecBSN: the block store under stores of non-empty payloads only, with  *)
(* payloads of up to three pages.                                          *)
(***************************************************************************)
\* longest payload of this section: three pages
MaxChainBytes == 5

NonEmptyPayloads == {SeqOf([i \in 1..n |-> 1]) : n \in 1..MaxChainBytes}

NextBSN ==
    \/ \E serialized \in NonEmptyPayloads : StoreNew(serialized)
    \/ \E index \in DOMAIN bsRecords, serialized \in NonEmptyPayloads :
           Rewrite(index, serialized)
    \/ \E offset \in DOMAIN bsRecords : Load(offset)

SpecBSN == InitBS /\ [][NextBSN]_vars

\* the chain of record id as the schema of the block headers has it, for a
\* record of len bytes
WellFormedChain(s, id, len) ==
    LET chain == PageChain(s, id)
    IN  \A i \in 1..Len(chain) :
            LET h == get_block_header_data(s, chain[i])
            IN  /\ h.index_in_chain = i - 1
                /\ h.primary_index = id
                /\ h.is_primary = (i = 1)
                /\ h.previous_block_offset = (IF i = 1 THEN 0 ELSE chain[i - 1])
                /\ (h.next_block_offset = 0) = (i = Len(chain))
                /\ h.serialized_node_length = len

\* C39: after any sequence of stores of non-empty payloads, new records and
\* rewrites that grow or shrink, page i of the chain of every record has
\* index_in_chain = i, primary_index = the record id, is_primary exactly on
\* page 0, previous_block_offset = the id of page i - 1 (0 on the head),
\* next_block_offset = 0 exactly on the last page and serialized_node_length
\* = the current length of the record; and no page is in the chains of two
\* records
C39_ChainsWellFormed ==
    /\ \A id \in DOMAIN bsRecords :
           WellFormedChain(bs, id, Len(bsRecords[id].payload))
    /\ \A a, b \in DOMAIN bsRecords :
           a # b => Range(PageChain(bs, a)) \cap Range(PageChain(bs, b)) = {}

\* two records, one of them rewritten to a chain of three pages after the
\* other was created
C39_Witness ==
    \E a, b \in DOMAIN bsRecords :
        /\ a < b
        /\ bsRecords[a].rewritten
        /\ Len(PageChain(bs, a)) = 3
        /\ PageChain(bs, a)[2] > b

=========================================================================
